---- MODULE Spec2Model ----
(***************************************************************************)
(* A model of grokify/traffic2openapi.  Package pkg/ir: the asynchronous   *)
(* NDJSON writer, the multi-writer, the channel writer and reader, the     *)
(* providers, the file writers and the logging round-tripper.  Package     *)
(* pkg/inference: the schema store, the schema tree and the engine.        *)
(***************************************************************************)
EXTENDS Integers, Sequences, FiniteSets, TLC

(***************************************************************************)
(* Bounds of the model.                                                    *)
(***************************************************************************)
NumProcs == 2      \* goroutines calling one writer concurrently
MaxCalls == 4      \* Write, Flush and Close calls made on one writer
MaxBuffer == 1     \* largest channel buffer size configured
MaxDest == 2       \* most destinations given to NewMultiWriter
MaxMultiCalls == 3 \* calls made on one MultiWriter
MaxBodyLimit == 2  \* largest MaxBodySize configured, in bytes
MaxBodyLen == 3    \* longest request and response body, in bytes
MaxRecords == 2    \* records written through one provider
MaxFileWrites == 3 \* Write calls made on one NDJSONWriter or GzipNDJSONWriter
MaxObservations == 3 \* bodies fed to one SchemaStore
MaxEngineCalls == 2 \* ProcessRecord calls made on one Engine
MaxSegments == 6    \* segments of a path given to InferTemplate
MaxInputRecords == 2 \* records of the input given to one generation run
MaxLines == 3        \* lines of the stream given to the NDJSON reader
MaxReads == 4        \* Read calls on the NDJSON reader
MaxNewCalls == 2     \* NewWriter and NewReader calls on one provider
MaxProps == 2        \* property names of the object nodes given to MergeSchemas
MaxRuns == 2         \* inference-and-generation runs made on one input
MaxFinalizes == 1   \* Finalize calls made on one Engine
MaxMutations == 2   \* calls mutating the store while BuildSchemaTree runs
MaxFileReads == 1   \* ReadFile calls made on one file
MaxFileRecords == 2 \* records stored in the file given to ReadFile

(***************************************************************************)
(* Constants of the program.                                               *)
(***************************************************************************)
ScannerMaxTokenSize == 1048576  \* scanner.Buffer(buf, 1024*1024)
MaxExamples == 5                \* NewSchemaStore: maxExamples: 5

AProcs == 1..NumProcs

VARIABLES
  \* AsyncNDJSONWriter (src/pkg/ir/async_writer.go)
  aw_bufferSize,   \* w.bufferSize
  aw_writerRes,    \* what the underlying NDJSONWriter's calls return
  aw_ch,           \* w.ch: the records buffered in the channel
  aw_chClosed,     \* close(w.ch) was executed
  aw_done,         \* close(w.done) was executed
  aw_closed,       \* w.closed
  aw_mu,           \* w.mu: the goroutine holding it, or 0
  aw_respCh,       \* the respCh of each Flush caller: "empty" or the value in it
  aw_lpc,          \* position of the writeLoop goroutine
  aw_loopRec,      \* the record writeLoop has received and not yet written
  aw_loopResp,     \* the Flush caller whose respCh writeLoop holds
  aw_wlog,         \* calls made on the underlying NDJSONWriter, in order
  aw_handled,      \* number of errorHandler calls
  aw_panic,        \* a send on, or a close of, a closed channel happened
  aw_pc,           \* position of each calling goroutine
  aw_cur,          \* the call each goroutine is in
  aw_last,         \* the call that returned last, with its result
  aw_accepted,     \* records whose Write returned after enqueueing, in order
  aw_closeReturned,\* some Close call has returned
  aw_calls,        \* number of Write, Flush and Close calls started so far
  aw_writes,       \* number of Write calls started so far
  \* MultiWriter (src/unnamed/part_009)
  mw_writers,      \* w.writers: the destinations, in construction order
  mw_dest,         \* for each destination, the calls it received, in order
  mw_hist,         \* the calls made on the MultiWriter, in order
  mw_last,         \* the last call: the destinations reached and the result
  \* ChannelWriter and ChannelReader (src/unnamed/part_006,
  \* src/pkg/ir/channel_reader.go), sharing one channel
  cw_writers,      \* the ChannelWriters made on the channel
  cw_cap,          \* capacity of the channel
  cw_ch,           \* the records buffered in the channel
  cw_chCloses,     \* number of times close(w.ch) was executed
  cw_panic,        \* a send on, or a close of, a closed channel happened
  cw_closed,       \* w.closed of each ChannelWriter
  cw_readers,      \* w.mu of each ChannelWriter: the goroutines holding RLock
  cw_pending,      \* w.mu of each ChannelWriter: the goroutines inside Lock()
  cw_pc,           \* position of each calling goroutine
  cw_cur,          \* the call each goroutine is in
  cw_last,         \* the call that returned last, with its result
  cw_calls,        \* number of Write and Close calls started so far
  cw_writes,       \* number of Write calls started so far
  cw_okRecs,       \* records whose Write returned nil
  cw_closeReturned,\* number of Close calls of each ChannelWriter that returned
  cr_closed,       \* r.closed of the ChannelReader
  cr_pc,           \* position of the goroutine calling ChannelReader.Read
  cr_out,          \* what the Read calls returned, in order: a record, or 0 for io.EOF
  \* LoggingTransport (src/pkg/ir/transport.go)
  lt_opts,         \* t.Options
  lt_handler,      \* t.ErrorHandler is set
  lt_last,         \* the RoundTrip call made: its inputs and what was observed
  \* Providers (src/pkg/ir/provider_ndjson.go, storage.go, provider_channel.go)
  pv_kind,         \* the provider
  pv_extLimit,     \* line limit of the external storage library's NDJSON reader
  pv_cap,          \* buffer size of the channel provider's channel
  pv_wstate,       \* the writer: "none", "open" or "closed"
  pv_written,      \* the records whose Write returned nil, in order
  pv_buf,          \* bytes the writer buffers
  pv_store,        \* bytes of the file or object at the path
  pv_ch,           \* the records buffered in the provider's channel
  pv_rstate,       \* the reader: "none", "open" or "done"
  pv_rest,         \* bytes the reader has not scanned yet
  pv_lineNum,      \* r.lineNum
  pv_out,          \* what the reader's Read calls returned, in order
  \* NDJSONWriter and GzipNDJSONWriter called by several goroutines
  \* (src/pkg/ir/writer.go, src/pkg/ir/gzip_writer.go)
  nw_kind,         \* the writer: "ndjson" or "gzip"
  nw_out,          \* what was written to w.w (w.gw), in order
  nw_count,        \* w.count
  nw_pc,           \* position of each goroutine inside Write
  nw_rec,          \* the record each goroutine is writing
  nw_tmp,          \* the value of w.count each goroutine loaded
  nw_ok,           \* number of Write calls that returned nil
  nw_calls,        \* number of Write calls started so far
  nw_overlap,      \* some Write started while another was in progress
  \* SchemaStore and BuildSchemaTree (src/pkg/inference/types.go, schema.go)
  ss_store,        \* the SchemaStore
  ss_bodies,       \* the bodies given to ProcessBody, in order
  ss_final,        \* FinalizeOptional was called after the last ProcessBody
  ss_built,        \* BuildSchemaTree was called after the last change
  ss_tree,         \* the schema tree BuildSchemaTree returned last
  \* Engine and EndpointClusterer (src/pkg/inference/engine.go,
  \* src/unnamed/part_017, part_018)
  en_options,      \* e.options
  en_c,            \* e.clusterer: endpoints, hosts, schemes and detectors
  en_mu,           \* c.mu: the goroutine holding it, or 0
  en_pc,           \* position of each calling goroutine
  en_arg,          \* the arguments of the AddRecord call each goroutine is in
  en_tmp,          \* the clusterer state each AddRecord call works from
  en_done,         \* the arguments of the AddRecord calls that returned, in order
  en_calls,        \* number of ProcessRecord calls started so far
  en_finals,       \* number of Finalize calls started so far
  en_overlap,      \* some AddRecord call began while another was in progress
  en_result,       \* the InferenceResult Finalize returned last
  \* PathInferrer (src/pkg/inference/path.go)
  pi_path,         \* the path given to InferTemplate, as its segments
  pi_pc,           \* "path", "inferred" or "again"
  pi_first,        \* what InferTemplate returned for the path
  pi_second,       \* what it returned for the path rebuilt from pi_first
  \* Generator (src/pkg/openapi/generator.go) on the engine's result
  gn_options,      \* g.options
  gn_records,      \* the records of the input, in order
  gn_c,            \* the clusterer of the last run, finalized
  gn_inferred,     \* a run was made
  gn_docs,         \* the documents the runs produced, in order
  \* MergeSchemas (src/pkg/inference/schema.go)
  mg_a,            \* the first schema node
  mg_b,            \* the second schema node
  mg_pc,           \* "nodes", "merged" or "done"
  mg_ab,           \* MergeSchemas(a, b)
  mg_ba,           \* MergeSchemas(b, a)
  mg_aa,           \* MergeSchemas(a, a)
  \* Provider.NewWriter and Provider.NewReader with their context
  cx_kind,         \* the provider
  cx_ctxErr,       \* ctx.Err() != nil: the context is cancelled
  cx_file,         \* what is at the path
  cx_level,        \* the gzip level option of the provider
  cx_backendChecks, \* the storage backend returns ctx.Err() of a cancelled context
  cx_calls,        \* the calls made and their outcomes, in order
  \* NDJSONReader (src/unnamed/part_008) on a stream of any lines
  rd_lines,        \* the lines of the stream
  rd_rest,         \* bytes the scanner has not scanned yet
  rd_lineNum,      \* r.lineNum
  rd_scanErr,      \* r.scanner.Err() != nil
  rd_out,          \* what the Read calls returned, in order
  \* BuildSchemaTree (src/pkg/inference/schema.go) beside a goroutine that
  \* mutates the store
  bt_store,        \* the SchemaStore
  bt_snap,         \* the store as GetPaths saw it: the paths of the tree
  bt_pc,           \* where BuildSchemaTree is
  bt_stack,        \* the convertToSchemaNode calls in progress, outermost first
  bt_readers,      \* read locks held on store.mu
  bt_writer,       \* the mutating goroutine: idle, waiting in mu.Lock(), or holding
  bt_op,           \* the call of the mutating goroutine
  bt_ops,          \* calls the mutating goroutine has made
  \* ReadFile (src/pkg/ir/reader.go) on one file
  rf_name,         \* the path of the file, its characters
  rf_format,       \* the format the file was written in
  rf_records,      \* the records stored in the file
  rf_bytes,        \* the bytes of the file
  rf_out           \* what the ReadFile calls returned, in order

awVars == <<aw_bufferSize, aw_writerRes, aw_ch, aw_chClosed, aw_done, aw_closed, aw_mu,
            aw_respCh, aw_lpc, aw_loopRec, aw_loopResp, aw_wlog, aw_handled,
            aw_panic, aw_pc, aw_cur, aw_last, aw_accepted, aw_closeReturned, aw_calls, aw_writes>>

mwVars == <<mw_writers, mw_dest, mw_hist, mw_last>>

cwVars == <<cw_writers, cw_cap, cw_ch, cw_chCloses, cw_panic, cw_closed,
            cw_readers, cw_pending, cw_pc, cw_cur, cw_last, cw_calls,
            cw_writes, cw_okRecs, cw_closeReturned, cr_closed, cr_pc, cr_out>>

ltVars == <<lt_opts, lt_handler, lt_last>>

pvVars == <<pv_kind, pv_extLimit, pv_cap, pv_wstate, pv_written, pv_buf,
            pv_store, pv_ch, pv_rstate, pv_rest, pv_lineNum, pv_out>>

nwVars == <<nw_kind, nw_out, nw_count, nw_pc, nw_rec, nw_tmp, nw_ok,
            nw_calls, nw_overlap>>

ssVars == <<ss_store, ss_bodies, ss_final, ss_built, ss_tree>>

enVars == <<en_options, en_c, en_mu, en_pc, en_arg, en_tmp, en_done, en_calls,
            en_finals, en_overlap, en_result>>

piVars == <<pi_path, pi_pc, pi_first, pi_second>>

gnVars == <<gn_options, gn_records, gn_c, gn_inferred, gn_docs>>

mgVars == <<mg_a, mg_b, mg_pc, mg_ab, mg_ba, mg_aa>>

cxVars == <<cx_kind, cx_ctxErr, cx_file, cx_level, cx_backendChecks, cx_calls>>

rdVars == <<rd_lines, rd_rest, rd_lineNum, rd_scanErr, rd_out>>

btVars == <<bt_store, bt_snap, bt_pc, bt_stack, bt_readers, bt_writer, bt_op,
            bt_ops>>

rfVars == <<rf_name, rf_format, rf_records, rf_bytes, rf_out>>

vars == <<awVars, mwVars, cwVars, ltVars, pvVars, nwVars, ssVars, enVars, piVars,
          gnVars, mgVars, cxVars, rdVars, btVars, rfVars>>

\* What the actions of one component leave alone.
notAw == <<mwVars, cwVars, ltVars, pvVars, nwVars, ssVars, enVars, piVars,
          gnVars, mgVars, cxVars, rdVars, btVars, rfVars>>
notMw == <<awVars, cwVars, ltVars, pvVars, nwVars, ssVars, enVars, piVars,
          gnVars, mgVars, cxVars, rdVars, btVars, rfVars>>
notCw == <<awVars, mwVars, ltVars, pvVars, nwVars, ssVars, enVars, piVars,
          gnVars, mgVars, cxVars, rdVars, btVars, rfVars>>
notLt == <<awVars, mwVars, cwVars, pvVars, nwVars, ssVars, enVars, piVars,
          gnVars, mgVars, cxVars, rdVars, btVars, rfVars>>
notPv == <<awVars, mwVars, cwVars, ltVars, nwVars, ssVars, enVars, piVars,
          gnVars, mgVars, cxVars, rdVars, btVars, rfVars>>
notNw == <<awVars, mwVars, cwVars, ltVars, pvVars, ssVars, enVars, piVars,
          gnVars, mgVars, cxVars, rdVars, btVars, rfVars>>
notSs == <<awVars, mwVars, cwVars, ltVars, pvVars, nwVars, enVars, piVars,
          gnVars, mgVars, cxVars, rdVars, btVars, rfVars>>
notEn == <<awVars, mwVars, cwVars, ltVars, pvVars, nwVars, ssVars, piVars,
          gnVars, mgVars, cxVars, rdVars, btVars, rfVars>>
notPi == <<awVars, mwVars, cwVars, ltVars, pvVars, nwVars, ssVars, enVars,
          gnVars, mgVars, cxVars, rdVars, btVars, rfVars>>
notGn == <<awVars, mwVars, cwVars, ltVars, pvVars, nwVars, ssVars, enVars,
          piVars, mgVars, cxVars, rdVars, btVars, rfVars>>
notMg == <<awVars, mwVars, cwVars, ltVars, pvVars, nwVars, ssVars, enVars,
          piVars, gnVars, cxVars, rdVars, btVars, rfVars>>
notCx == <<awVars, mwVars, cwVars, ltVars, pvVars, nwVars, ssVars, enVars,
          piVars, gnVars, mgVars, rdVars, btVars, rfVars>>
notRd == <<awVars, mwVars, cwVars, ltVars, pvVars, nwVars, ssVars, enVars,
          piVars, gnVars, mgVars, cxVars, btVars, rfVars>>
notBt == <<awVars, mwVars, cwVars, ltVars, pvVars, nwVars, ssVars, enVars,
          piVars, gnVars, mgVars, cxVars, rdVars, rfVars>>
notRf == <<awVars, mwVars, cwVars, ltVars, pvVars, nwVars, ssVars, enVars,
          piVars, gnVars, mgVars, cxVars, rdVars, btVars>>

(***************************************************************************)
(* Helpers on sequences.                                                   *)
(***************************************************************************)
Range(s) == {s[i] : i \in 1..Len(s)}

RECURSIVE SelectSeqIn(_, _)
\* the subsequence of s of the elements in set S
SelectSeqIn(s, S) ==
  IF s = <<>> THEN <<>>
  ELSE IF Head(s) \in S THEN <<Head(s)>> \o SelectSeqIn(Tail(s), S)
       ELSE SelectSeqIn(Tail(s), S)

(***************************************************************************)
(* AsyncNDJSONWriter.                                                      *)
(***************************************************************************)
NoCall == [op |-> "none", by |-> 0, rec |-> 0, ret |-> "none",
           snap |-> 0, open |-> FALSE, late |-> FALSE]

\* NewAsyncNDJSONWriter: the channels are made, writeLoop is started.
AsyncInit ==
  /\ aw_bufferSize \in 0..MaxBuffer
  /\ aw_writerRes \in {"nil", "err"}
  /\ aw_ch = <<>>
  /\ aw_chClosed = FALSE
  /\ aw_done = FALSE
  /\ aw_closed = FALSE
  /\ aw_mu = 0
  /\ aw_respCh = [p \in AProcs |-> "empty"]
  /\ aw_lpc = "select"
  /\ aw_loopRec = 0
  /\ aw_loopResp = 0
  /\ aw_wlog = <<>>
  /\ aw_handled = 0
  /\ aw_panic = FALSE
  /\ aw_pc = [p \in AProcs |-> "idle"]
  /\ aw_cur = [p \in AProcs |-> NoCall]
  /\ aw_last = NoCall
  /\ aw_accepted = <<>>
  /\ aw_closeReturned = FALSE
  /\ aw_calls = 0
  /\ aw_writes = 0

\* The async subsystem at rest, for the specifications that do not use it.
AsyncIdle ==
  /\ aw_bufferSize = 0
  /\ aw_writerRes = "nil"
  /\ aw_ch = <<>>
  /\ aw_chClosed = FALSE
  /\ aw_done = FALSE
  /\ aw_closed = FALSE
  /\ aw_mu = 0
  /\ aw_respCh = [p \in AProcs |-> "empty"]
  /\ aw_lpc = "select"
  /\ aw_loopRec = 0
  /\ aw_loopResp = 0
  /\ aw_wlog = <<>>
  /\ aw_handled = 0
  /\ aw_panic = FALSE
  /\ aw_pc = [p \in AProcs |-> "idle"]
  /\ aw_cur = [p \in AProcs |-> NoCall]
  /\ aw_last = NoCall
  /\ aw_accepted = <<>>
  /\ aw_closeReturned = FALSE
  /\ aw_calls = 0
  /\ aw_writes = 0

\* A call returns: its result becomes the goroutine's last call.
AwReturn(p, ret) ==
  /\ aw_last' = [aw_cur[p] EXCEPT !.ret = ret]
  /\ aw_cur' = [aw_cur EXCEPT ![p] = NoCall]
  /\ aw_pc' = [aw_pc EXCEPT ![p] = "idle"]

\* What Write returns when it finds w.closed set.
AWriteClosedResult == "nil"

\* A Write that does not look at w.closed.
WriteSeesClosedNever == FALSE

\* Write: if w.closed.
WriteSeesClosed == aw_closed

\* Write: w.mu.Lock() at the start of the call.
AWriteLock(p) ==
  /\ aw_pc[p] = "idle"
  /\ aw_mu = 0
  /\ aw_calls < MaxCalls
  /\ aw_calls' = aw_calls + 1
  /\ aw_writes' = aw_writes + 1
  /\ aw_cur' = [aw_cur EXCEPT ![p] =
       [op |-> "Write", by |-> p, rec |-> aw_writes + 1, ret |-> "none",
        snap |-> Len(aw_accepted), open |-> ~aw_closed,
        late |-> aw_closeReturned]]
  /\ aw_mu' = p
  /\ aw_pc' = [aw_pc EXCEPT ![p] = "w_locked"]
  /\ UNCHANGED <<notAw, aw_bufferSize, aw_writerRes, aw_ch, aw_chClosed, aw_done, aw_closed,
                 aw_respCh, aw_lpc, aw_loopRec, aw_loopResp, aw_wlog,
                 aw_handled, aw_panic, aw_last, aw_accepted, aw_closeReturned>>

\* Write: the closed check, and the return without enqueueing.
AWriteClosed(p) ==
  /\ aw_pc[p] = "w_locked"
  /\ WriteSeesClosed
  /\ aw_mu' = 0
  /\ AwReturn(p, AWriteClosedResult)
  /\ UNCHANGED <<notAw, aw_calls, aw_writes, aw_bufferSize, aw_writerRes, aw_ch, aw_chClosed, aw_done, aw_closed,
                 aw_respCh, aw_lpc, aw_loopRec, aw_loopResp, aw_wlog,
                 aw_handled, aw_panic, aw_accepted, aw_closeReturned>>

\* A Write on a channel made without buffer, make(chan *IRRecord): the send
\* never finds a free slot.
AWriteSendUnbuffered(p) ==
  /\ aw_pc[p] = "w_locked"
  /\ ~WriteSeesClosed
  /\ IF aw_chClosed
     THEN /\ aw_panic' = TRUE
          /\ aw_pc' = [aw_pc EXCEPT ![p] = "panicked"]
          /\ UNCHANGED <<aw_ch, aw_mu, aw_cur, aw_last, aw_accepted>>
     ELSE /\ Len(aw_ch) < 0
          /\ aw_ch' = Append(aw_ch, aw_cur[p].rec)
          /\ aw_accepted' = Append(aw_accepted, aw_cur[p].rec)
          /\ aw_mu' = 0
          /\ AwReturn(p, "nil")
          /\ UNCHANGED aw_panic
  /\ UNCHANGED <<notAw, aw_calls, aw_writes, aw_bufferSize, aw_writerRes, aw_chClosed, aw_done, aw_closed, aw_respCh,
                 aw_lpc, aw_loopRec, aw_loopResp, aw_wlog, aw_handled,
                 aw_closeReturned>>

\* Write: w.ch <- record into a free buffer slot, the deferred unlock, return nil.
\* A send on a closed channel panics.
AWriteSend(p) ==
  /\ aw_pc[p] = "w_locked"
  /\ ~WriteSeesClosed
  /\ IF aw_chClosed
     THEN /\ aw_panic' = TRUE
          /\ aw_pc' = [aw_pc EXCEPT ![p] = "panicked"]
          /\ UNCHANGED <<aw_ch, aw_mu, aw_cur, aw_last, aw_accepted>>
     ELSE /\ Len(aw_ch) < aw_bufferSize
          /\ aw_ch' = Append(aw_ch, aw_cur[p].rec)
          /\ aw_accepted' = Append(aw_accepted, aw_cur[p].rec)
          /\ aw_mu' = 0
          /\ AwReturn(p, "nil")
          /\ UNCHANGED aw_panic
  /\ UNCHANGED <<notAw, aw_calls, aw_writes, aw_bufferSize, aw_writerRes, aw_chClosed, aw_done, aw_closed, aw_respCh,
                 aw_lpc, aw_loopRec, aw_loopResp, aw_wlog, aw_handled,
                 aw_closeReturned>>

\* The positions at which writeLoop is receiving from w.ch.
LoopReceiving == aw_lpc \in {"select", "drainF", "drainD"}

AfterRecv(lpc) ==
  CASE lpc = "select" -> "write"
    [] lpc = "drainF" -> "dwriteF"
    [] lpc = "drainD" -> "dwriteD"

\* Write on an unbuffered channel: the send meets writeLoop's receive.
AWriteHandOff(p) ==
  /\ aw_pc[p] = "w_locked"
  /\ ~WriteSeesClosed
  /\ ~aw_chClosed
  /\ aw_bufferSize = 0
  /\ LoopReceiving
  /\ aw_loopRec' = aw_cur[p].rec
  /\ aw_lpc' = AfterRecv(aw_lpc)
  /\ aw_accepted' = Append(aw_accepted, aw_cur[p].rec)
  /\ aw_mu' = 0
  /\ AwReturn(p, "nil")
  /\ UNCHANGED <<notAw, aw_calls, aw_writes, aw_bufferSize, aw_writerRes, aw_ch, aw_chClosed, aw_done, aw_closed,
                 aw_respCh, aw_loopResp, aw_wlog, aw_handled, aw_panic,
                 aw_closeReturned>>

\* Flush: the closed check under w.mu; a closed writer returns nil at once.
AFlushCheck(p) ==
  /\ aw_pc[p] = "idle"
  /\ aw_mu = 0
  /\ aw_calls < MaxCalls
  /\ aw_calls' = aw_calls + 1
  /\ UNCHANGED aw_writes
  /\ LET call == [op |-> "Flush", by |-> p, rec |-> 0, ret |-> "none",
                  snap |-> Len(aw_accepted), open |-> ~aw_closed,
                  late |-> aw_closeReturned]
     IN IF aw_closed
        THEN /\ aw_last' = [call EXCEPT !.ret = "nil"]
             /\ UNCHANGED <<aw_cur, aw_pc>>
        ELSE /\ aw_cur' = [aw_cur EXCEPT ![p] = call]
             /\ aw_pc' = [aw_pc EXCEPT ![p] = "f_send"]
             /\ UNCHANGED aw_last
  /\ UNCHANGED <<notAw, aw_bufferSize, aw_writerRes, aw_ch, aw_chClosed, aw_done, aw_closed, aw_mu,
                 aw_respCh, aw_lpc, aw_loopRec, aw_loopResp, aw_wlog,
                 aw_handled, aw_panic, aw_accepted, aw_closeReturned>>

\* Flush: w.flushCh <- respCh meets writeLoop's case respCh := <-w.flushCh.
AFlushHandOff(p) ==
  /\ aw_pc[p] = "f_send"
  /\ aw_lpc = "select"
  /\ aw_lpc' = "drainF"
  /\ aw_loopResp' = p
  /\ aw_pc' = [aw_pc EXCEPT ![p] = "f_wait"]
  /\ UNCHANGED <<notAw, aw_calls, aw_writes, aw_bufferSize, aw_writerRes, aw_ch, aw_chClosed, aw_done, aw_closed, aw_mu,
                 aw_respCh, aw_loopRec, aw_wlog, aw_handled, aw_panic, aw_cur,
                 aw_last, aw_accepted, aw_closeReturned>>

\* Flush: return <-respCh.
AFlushReturn(p) ==
  /\ aw_pc[p] = "f_wait"
  /\ aw_respCh[p] # "empty"
  /\ aw_respCh' = [aw_respCh EXCEPT ![p] = "empty"]
  /\ AwReturn(p, aw_respCh[p])
  /\ UNCHANGED <<notAw, aw_calls, aw_writes, aw_bufferSize, aw_writerRes, aw_ch, aw_chClosed, aw_done, aw_closed, aw_mu,
                 aw_lpc, aw_loopRec, aw_loopResp, aw_wlog, aw_handled,
                 aw_panic, aw_accepted, aw_closeReturned>>

\* A Close that does not look at w.closed.
CloseSeesClosedNever == FALSE

\* Close: if w.closed.
CloseSeesClosed == aw_closed

\* Close: the closed check under w.mu; the first caller sets w.closed, a
\* later one returns nil at once.
ACloseCheck(p) ==
  /\ aw_pc[p] = "idle"
  /\ aw_mu = 0
  /\ aw_calls < MaxCalls
  /\ aw_calls' = aw_calls + 1
  /\ UNCHANGED aw_writes
  /\ LET call == [op |-> "Close", by |-> p, rec |-> 0, ret |-> "none",
                  snap |-> Len(aw_accepted), open |-> ~aw_closed,
                  late |-> aw_closeReturned]
     IN IF CloseSeesClosed
        THEN /\ aw_last' = [call EXCEPT !.ret = "nil"]
             /\ aw_closeReturned' = TRUE
             /\ UNCHANGED <<aw_cur, aw_pc, aw_closed>>
        ELSE /\ aw_closed' = TRUE
             /\ aw_cur' = [aw_cur EXCEPT ![p] = call]
             /\ aw_pc' = [aw_pc EXCEPT ![p] = "c_closech"]
             /\ UNCHANGED <<aw_last, aw_closeReturned>>
  /\ UNCHANGED <<notAw, aw_bufferSize, aw_writerRes, aw_ch, aw_chClosed, aw_done, aw_mu, aw_respCh,
                 aw_lpc, aw_loopRec, aw_loopResp, aw_wlog, aw_handled,
                 aw_panic, aw_accepted>>

\* Close: close(w.ch).
ACloseCh(p) ==
  /\ aw_pc[p] = "c_closech"
  /\ IF aw_chClosed
     THEN /\ aw_panic' = TRUE
          /\ aw_pc' = [aw_pc EXCEPT ![p] = "panicked"]
          /\ UNCHANGED aw_chClosed
     ELSE /\ aw_chClosed' = TRUE
          /\ aw_pc' = [aw_pc EXCEPT ![p] = "c_closedone"]
          /\ UNCHANGED aw_panic
  /\ UNCHANGED <<notAw, aw_calls, aw_writes, aw_bufferSize, aw_writerRes, aw_ch, aw_done, aw_closed, aw_mu, aw_respCh,
                 aw_lpc, aw_loopRec, aw_loopResp, aw_wlog, aw_handled, aw_cur,
                 aw_last, aw_accepted, aw_closeReturned>>

\* Close: close(w.done).
ACloseDone(p) ==
  /\ aw_pc[p] = "c_closedone"
  /\ IF aw_done
     THEN /\ aw_panic' = TRUE
          /\ aw_pc' = [aw_pc EXCEPT ![p] = "panicked"]
          /\ UNCHANGED aw_done
     ELSE /\ aw_done' = TRUE
          /\ aw_pc' = [aw_pc EXCEPT ![p] = "c_wait"]
          /\ UNCHANGED aw_panic
  /\ UNCHANGED <<notAw, aw_calls, aw_writes, aw_bufferSize, aw_writerRes, aw_ch, aw_chClosed, aw_closed, aw_mu,
                 aw_respCh, aw_lpc, aw_loopRec, aw_loopResp, aw_wlog,
                 aw_handled, aw_cur, aw_last, aw_accepted, aw_closeReturned>>

\* Close: w.wg.Wait() returns once writeLoop has exited; then
\* return w.writer.Close(), whose result the underlying writer decides.
ACloseWriter(p) ==
  /\ aw_pc[p] = "c_wait"
  /\ aw_lpc = "exited"
  /\ LET res == aw_writerRes IN
       /\ aw_wlog' = Append(aw_wlog, [op |-> "Close", rec |-> p, res |-> res])
       /\ AwReturn(p, res)
  /\ aw_closeReturned' = TRUE
  /\ UNCHANGED <<notAw, aw_calls, aw_writes, aw_bufferSize, aw_writerRes, aw_ch, aw_chClosed, aw_done, aw_closed, aw_mu,
                 aw_respCh, aw_lpc, aw_loopRec, aw_loopResp, aw_handled,
                 aw_panic, aw_accepted>>

\* writeLoop and drainPending: case record, ok := <-w.ch with a record buffered.
LoopRecv ==
  /\ LoopReceiving
  /\ aw_ch # <<>>
  /\ aw_loopRec' = Head(aw_ch)
  /\ aw_ch' = Tail(aw_ch)
  /\ aw_lpc' = AfterRecv(aw_lpc)
  /\ UNCHANGED <<notAw, aw_calls, aw_writes, aw_bufferSize, aw_writerRes, aw_chClosed, aw_done, aw_closed, aw_mu,
                 aw_respCh, aw_loopResp, aw_wlog, aw_handled, aw_panic, aw_pc,
                 aw_cur, aw_last, aw_accepted, aw_closeReturned>>

AfterWrite(lpc) ==
  CASE lpc = "write" -> "select"
    [] lpc = "dwriteF" -> "drainF"
    [] lpc = "dwriteD" -> "drainD"

\* writeLoop and drainPending: w.writer.Write(record); an error goes to
\* w.errorHandler.
LoopWrite ==
  /\ aw_lpc \in {"write", "dwriteF", "dwriteD"}
  /\ LET res == aw_writerRes IN
       /\ aw_wlog' = Append(aw_wlog,
                        [op |-> "Write", rec |-> aw_loopRec, res |-> res])
       /\ aw_handled' = IF res = "err" THEN aw_handled + 1 ELSE aw_handled
  /\ aw_loopRec' = 0
  /\ aw_lpc' = AfterWrite(aw_lpc)
  /\ UNCHANGED <<notAw, aw_calls, aw_writes, aw_bufferSize, aw_writerRes, aw_ch, aw_chClosed, aw_done, aw_closed, aw_mu,
                 aw_respCh, aw_loopResp, aw_panic, aw_pc, aw_cur, aw_last,
                 aw_accepted, aw_closeReturned>>

\* writeLoop: case record, ok := <-w.ch with ok false: the channel is closed
\* and empty; return.
LoopChClosed ==
  /\ aw_lpc = "select"
  /\ aw_ch = <<>>
  /\ aw_chClosed
  /\ aw_lpc' = "exited"
  /\ UNCHANGED <<notAw, aw_calls, aw_writes, aw_bufferSize, aw_writerRes, aw_ch, aw_chClosed, aw_done, aw_closed, aw_mu,
                 aw_respCh, aw_loopRec, aw_loopResp, aw_wlog, aw_handled,
                 aw_panic, aw_pc, aw_cur, aw_last, aw_accepted,
                 aw_closeReturned>>

\* writeLoop: case <-w.done.
LoopDone ==
  /\ aw_lpc = "select"
  /\ aw_done
  /\ aw_lpc' = "drainD"
  /\ UNCHANGED <<notAw, aw_calls, aw_writes, aw_bufferSize, aw_writerRes, aw_ch, aw_chClosed, aw_done, aw_closed, aw_mu,
                 aw_respCh, aw_loopRec, aw_loopResp, aw_wlog, aw_handled,
                 aw_panic, aw_pc, aw_cur, aw_last, aw_accepted,
                 aw_closeReturned>>

\* A Write blocked in its send on an unbuffered w.ch.
SenderWaiting ==
  /\ aw_bufferSize = 0
  /\ ~aw_closed
  /\ \E p \in AProcs : aw_pc[p] = "w_locked"

\* A drainPending that returns without receiving anything.
DrainReturnsAtOnce == TRUE

\* drainPending returns: the channel is closed and empty (ok false), or no
\* record is ready (default).
DrainReturns ==
  /\ aw_ch = <<>>
  /\ aw_chClosed \/ ~SenderWaiting

\* writeLoop: drainPending has returned in the flush case:
\* respCh <- w.writer.Flush().
LoopFlush ==
  /\ aw_lpc = "drainF"
  /\ DrainReturns
  /\ LET res == aw_writerRes IN
       /\ aw_wlog' = Append(aw_wlog,
                        [op |-> "Flush", rec |-> aw_loopResp, res |-> res])
       /\ aw_respCh' = [aw_respCh EXCEPT ![aw_loopResp] = res]
  /\ aw_loopResp' = 0
  /\ aw_lpc' = "select"
  /\ UNCHANGED <<notAw, aw_calls, aw_writes, aw_bufferSize, aw_writerRes, aw_ch, aw_chClosed, aw_done, aw_closed, aw_mu,
                 aw_loopRec, aw_handled, aw_panic, aw_pc, aw_cur, aw_last,
                 aw_accepted, aw_closeReturned>>

\* writeLoop: drainPending has returned in the done case: return.
LoopExit ==
  /\ aw_lpc = "drainD"
  /\ DrainReturns
  /\ aw_lpc' = "exited"
  /\ UNCHANGED <<notAw, aw_calls, aw_writes, aw_bufferSize, aw_writerRes, aw_ch, aw_chClosed, aw_done, aw_closed, aw_mu,
                 aw_respCh, aw_loopRec, aw_loopResp, aw_wlog, aw_handled,
                 aw_panic, aw_pc, aw_cur, aw_last, aw_accepted,
                 aw_closeReturned>>

AsyncNext ==
  \/ \E p \in AProcs : AWriteLock(p)
  \/ \E p \in AProcs : AWriteClosed(p)
  \/ \E p \in AProcs : AWriteSend(p)
  \/ \E p \in AProcs : AWriteHandOff(p)
  \/ \E p \in AProcs : AFlushCheck(p)
  \/ \E p \in AProcs : AFlushHandOff(p)
  \/ \E p \in AProcs : AFlushReturn(p)
  \/ \E p \in AProcs : ACloseCheck(p)
  \/ \E p \in AProcs : ACloseCh(p)
  \/ \E p \in AProcs : ACloseDone(p)
  \/ \E p \in AProcs : ACloseWriter(p)
  \/ LoopRecv
  \/ LoopWrite
  \/ LoopChClosed
  \/ LoopDone
  \/ LoopFlush
  \/ LoopExit

(***************************************************************************)
(* MultiWriter.  A destination is any IRWriter: each of its calls either   *)
(* succeeds or returns an error, and it records the calls it receives.     *)
(***************************************************************************)
MDests == 1..MaxDest

NoMultiCall == [op |-> "none", rec |-> 0, failing |-> {}, reached |-> <<>>,
                ret |-> <<>>]

\* NewMultiWriter: at least one writer is required; w.writers keeps them in
\* the order given.
MultiInit ==
  /\ mw_writers \in {[i \in 1..n |-> i] : n \in 1..MaxDest}
  /\ mw_dest = [d \in MDests |-> <<>>]
  /\ mw_hist = <<>>
  /\ mw_last = NoMultiCall

\* The MultiWriter at rest, for the specifications that do not use it.
MultiIdle ==
  /\ mw_writers = <<1>>
  /\ mw_dest = [d \in MDests |-> <<>>]
  /\ mw_hist = <<>>
  /\ mw_last = NoMultiCall

RECURSIVE ForEachWriterShort(_, _)
\* A loop that returns at the first writer that fails.
ForEachWriterShort(ws, failing) ==
  IF ws = <<>> THEN [reached |-> <<>>, errs |-> <<>>]
  ELSE IF Head(ws) \in failing
       THEN [reached |-> <<Head(ws)>>, errs |-> <<Head(ws)>>]
       ELSE LET rest == ForEachWriterShort(Tail(ws), failing)
            IN [reached |-> <<Head(ws)>> \o rest.reached, errs |-> rest.errs]

RECURSIVE ForEachWriter(_, _)
\* for _, writer := range w.writers: call the writer, append its error to
\* errs, go on to the next writer.  The writers in `failing` return an error.
ForEachWriter(ws, failing) ==
  IF ws = <<>> THEN [reached |-> <<>>, errs |-> <<>>]
  ELSE LET rest == ForEachWriter(Tail(ws), failing)
       IN [reached |-> <<Head(ws)>> \o rest.reached,
           errs |-> (IF Head(ws) \in failing THEN <<Head(ws)>> ELSE <<>>)
                      \o rest.errs]

RECURSIVE Received(_, _, _, _)
\* The log of destination d after the calls made to the writers in `reached`.
Received(log, d, reached, ev) ==
  IF reached = <<>> THEN log
  ELSE Received(IF Head(reached) = d THEN Append(log, ev) ELSE log,
                d, Tail(reached), ev)

\* The number of Write calls made on the MultiWriter.
MultiWrites == Len(SelectSeq(mw_hist, LAMBDA c : c.op = "Write"))

\* One call of the MultiWriter: the loop over w.writers, then
\* errors.Join(errs...) if len(errs) > 0, else nil (the empty sequence).
MultiCall(op, rec, failing) ==
  /\ Len(mw_hist) < MaxMultiCalls
  /\ LET r == ForEachWriter(mw_writers, failing)
     IN /\ mw_dest' = [d \in MDests |->
               Received(mw_dest[d], d, r.reached,
                        [op |-> op, rec |-> rec, ok |-> d \notin failing])]
        /\ mw_last' = [op |-> op, rec |-> rec, failing |-> failing,
                       reached |-> r.reached, ret |-> r.errs]
  /\ mw_hist' = Append(mw_hist, [op |-> op, rec |-> rec])
  /\ UNCHANGED <<notMw, mw_writers>>

\* MultiWriter.Write
MultiWrite ==
  \E failing \in SUBSET Range(mw_writers) :
     MultiCall("Write", MultiWrites + 1, failing)

\* MultiWriter.Flush
MultiFlush ==
  \E failing \in SUBSET Range(mw_writers) : MultiCall("Flush", 0, failing)

\* MultiWriter.Close
MultiClose ==
  \E failing \in SUBSET Range(mw_writers) : MultiCall("Close", 0, failing)

MultiNext ==
  \/ MultiWrite
  \/ MultiFlush
  \/ MultiClose

(***************************************************************************)
(* ChannelWriter and ChannelReader.  The writers named in cw_writers share *)
(* one channel; each has its own closed flag and its own RWMutex.  A       *)
(* goroutine waiting in or holding mu.Lock() keeps new readers out.        *)
(***************************************************************************)
ChanWriterIds == {1, 2}

NoChanCall == [op |-> "none", by |-> 0, w |-> 0, rec |-> 0, ret |-> "none",
               late |-> FALSE]

\* NewChannelWriter / NewChannelWriterWithChan and NewChannelReader: nothing
\* is closed, nothing is buffered.
ChanStart(writers) ==
  /\ cw_writers = writers
  /\ cw_ch = <<>>
  /\ cw_chCloses = 0
  /\ cw_panic = FALSE
  /\ cw_closed = [w \in ChanWriterIds |-> FALSE]
  /\ cw_readers = [w \in ChanWriterIds |-> {}]
  /\ cw_pending = [w \in ChanWriterIds |-> {}]
  /\ cw_pc = [p \in AProcs |-> "idle"]
  /\ cw_cur = [p \in AProcs |-> NoChanCall]
  /\ cw_last = NoChanCall
  /\ cw_calls = 0
  /\ cw_writes = 0
  /\ cw_okRecs = {}
  /\ cw_closeReturned = [w \in ChanWriterIds |-> 0]
  /\ cr_closed = FALSE
  /\ cr_pc = "idle"
  /\ cr_out = <<>>

\* One ChannelWriter on a channel of any capacity, and one ChannelReader.
ChanInit ==
  /\ cw_cap \in 0..MaxBuffer
  /\ ChanStart({1})

\* One ChannelProvider on a channel of any capacity: NewWriter called twice
\* gives two ChannelWriters on the provider's channel, NewReader a reader.
ChanProviderInit ==
  /\ cw_cap \in 0..MaxBuffer
  /\ ChanStart(ChanWriterIds)

\* The channel subsystem at rest, for the specifications that do not use it.
ChanIdle ==
  /\ cw_cap = 0
  /\ ChanStart({1})

\* The records delivered to the channel so far: received, then buffered.
Delivered ==
  SelectSeq(cr_out, LAMBDA x : x # 0) \o cw_ch

\* A call returns: the deferred unlock has run.
CwReturn(p, ret) ==
  /\ cw_last' = [cw_cur[p] EXCEPT !.ret = ret]
  /\ cw_cur' = [cw_cur EXCEPT ![p] = NoChanCall]
  /\ cw_pc' = [cw_pc EXCEPT ![p] = "idle"]
  /\ cw_okRecs' = IF cw_cur[p].op = "Write" /\ ret = "nil"
                  THEN cw_okRecs \cup {cw_cur[p].rec}
                  ELSE cw_okRecs
  /\ cw_closeReturned' =
       IF cw_cur[p].op = "Close"
       THEN [cw_closeReturned EXCEPT ![cw_cur[p].w] = @ + 1]
       ELSE cw_closeReturned

\* A Write is called.
ChanWriteCall(p, w) ==
  /\ cw_pc[p] = "idle"
  /\ cw_calls < MaxCalls
  /\ cw_calls' = cw_calls + 1
  /\ cw_writes' = cw_writes + 1
  /\ cw_cur' = [cw_cur EXCEPT ![p] =
       [op |-> "Write", by |-> p, w |-> w, rec |-> cw_writes + 1,
        ret |-> "none", late |-> cw_closeReturned[w] > 0]]
  /\ cw_pc' = [cw_pc EXCEPT ![p] = "w_rlock"]
  /\ UNCHANGED <<notCw, cw_writers, cw_cap, cw_ch, cw_chCloses, cw_panic,
                 cw_closed, cw_readers, cw_pending, cw_last, cw_okRecs,
                 cw_closeReturned, cr_closed, cr_pc, cr_out>>

\* w.mu.RLock() can be taken: no goroutine is waiting in or holding Lock.
RLockFree(w) == cw_pending[w] = {}

\* Write: w.mu.RLock().
ChanWriteRLock(p) ==
  /\ cw_pc[p] = "w_rlock"
  /\ RLockFree(cw_cur[p].w)
  /\ cw_readers' = [cw_readers EXCEPT ![cw_cur[p].w] = @ \cup {p}]
  /\ cw_pc' = [cw_pc EXCEPT ![p] = "w_check"]
  /\ UNCHANGED <<notCw, cw_writers, cw_cap, cw_ch, cw_chCloses, cw_panic,
                 cw_closed, cw_pending, cw_cur, cw_last, cw_calls, cw_writes,
                 cw_okRecs, cw_closeReturned, cr_closed, cr_pc, cr_out>>

\* Write: if w.closed.
ChanWriteSeesClosed(w) == cw_closed[w]

\* Write: the closed check fails the call with ErrChannelClosed; the deferred
\* RUnlock runs.
ChanWriteClosed(p) ==
  /\ cw_pc[p] = "w_check"
  /\ ChanWriteSeesClosed(cw_cur[p].w)
  /\ cw_readers' = [cw_readers EXCEPT ![cw_cur[p].w] = @ \ {p}]
  /\ CwReturn(p, "ErrChannelClosed")
  /\ UNCHANGED <<notCw, cw_writers, cw_cap, cw_ch, cw_chCloses, cw_panic,
                 cw_closed, cw_pending, cw_calls, cw_writes, cr_closed, cr_pc,
                 cr_out>>

\* Write: the closed check passes; the call goes on to the send.
ChanWriteOpen(p) ==
  /\ cw_pc[p] = "w_check"
  /\ ~ChanWriteSeesClosed(cw_cur[p].w)
  /\ cw_pc' = [cw_pc EXCEPT ![p] = "w_send"]
  /\ UNCHANGED <<notCw, cw_writers, cw_cap, cw_ch, cw_chCloses, cw_panic,
                 cw_closed, cw_readers, cw_pending, cw_cur, cw_last, cw_calls,
                 cw_writes, cw_okRecs, cw_closeReturned, cr_closed, cr_pc,
                 cr_out>>

\* Write: w.ch <- record into a free buffer slot, return nil.  A send on a
\* closed channel panics.
ChanWriteSend(p) ==
  /\ cw_pc[p] = "w_send"
  /\ IF cw_chCloses > 0
     THEN /\ cw_panic' = TRUE
          /\ cw_pc' = [cw_pc EXCEPT ![p] = "panicked"]
          /\ UNCHANGED <<cw_ch, cw_readers, cw_cur, cw_last, cw_okRecs,
                         cw_closeReturned>>
     ELSE /\ Len(cw_ch) < cw_cap
          /\ cw_ch' = Append(cw_ch, cw_cur[p].rec)
          /\ cw_readers' = [cw_readers EXCEPT ![cw_cur[p].w] = @ \ {p}]
          /\ CwReturn(p, "nil")
          /\ UNCHANGED cw_panic
  /\ UNCHANGED <<notCw, cw_writers, cw_cap, cw_chCloses, cw_closed,
                 cw_pending, cw_calls, cw_writes, cr_closed, cr_pc, cr_out>>

\* Write on an unbuffered channel: the send meets the reader's receive, and
\* that Read returns the record.
ChanWriteHandOff(p) ==
  /\ cw_pc[p] = "w_send"
  /\ cw_chCloses = 0
  /\ cw_cap = 0
  /\ cr_pc = "recv"
  /\ cr_out' = Append(cr_out, cw_cur[p].rec)
  /\ cr_pc' = "idle"
  /\ cw_readers' = [cw_readers EXCEPT ![cw_cur[p].w] = @ \ {p}]
  /\ CwReturn(p, "nil")
  /\ UNCHANGED <<notCw, cw_writers, cw_cap, cw_ch, cw_chCloses, cw_panic,
                 cw_closed, cw_pending, cw_calls, cw_writes, cr_closed>>

\* ChannelWriter.Flush: a no-op that returns nil.
ChanFlush(p, w) ==
  /\ cw_pc[p] = "idle"
  /\ cw_calls < MaxCalls
  /\ cw_calls' = cw_calls + 1
  /\ cw_last' = [op |-> "Flush", by |-> p, w |-> w, rec |-> 0, ret |-> "nil",
                 late |-> cw_closeReturned[w] > 0]
  /\ UNCHANGED <<notCw, cw_writers, cw_cap, cw_ch, cw_chCloses, cw_panic,
                 cw_closed, cw_readers, cw_pending, cw_pc, cw_cur, cw_writes,
                 cw_okRecs, cw_closeReturned, cr_closed, cr_pc, cr_out>>

\* Close: the call enters w.mu.Lock().
ChanCloseCall(p, w) ==
  /\ cw_pc[p] = "idle"
  /\ cw_calls < MaxCalls
  /\ cw_calls' = cw_calls + 1
  /\ cw_cur' = [cw_cur EXCEPT ![p] =
       [op |-> "Close", by |-> p, w |-> w, rec |-> 0, ret |-> "none",
        late |-> cw_closeReturned[w] > 0]]
  /\ cw_pending' = [cw_pending EXCEPT ![w] = @ \cup {p}]
  /\ cw_pc' = [cw_pc EXCEPT ![p] = "c_lock"]
  /\ UNCHANGED <<notCw, cw_writers, cw_cap, cw_ch, cw_chCloses, cw_panic,
                 cw_closed, cw_readers, cw_last, cw_writes, cw_okRecs,
                 cw_closeReturned, cr_closed, cr_pc, cr_out>>

\* A Close that never finds the writer closed.
ChanCloseSeesClosedNever(w) == FALSE

\* Close: if w.closed.
ChanCloseSeesClosed(w) == cw_closed[w]

\* A Lock that is granted whoever holds the mutex.
LockFreeAlways(p) == TRUE

\* w.mu.Lock() can be taken by p: no reader holds the mutex and no other
\* goroutine holds Lock.
LockFree(p) ==
  /\ cw_readers[cw_cur[p].w] = {}
  /\ \A q \in AProcs : cw_pc[q] = "c_unlock" => cw_cur[q].w # cw_cur[p].w

\* Close: w.mu.Lock() is granted; then the closed check, w.closed = true and
\* close(w.ch).  A close of a closed channel panics.
ChanCloseLocked(p) ==
  /\ cw_pc[p] = "c_lock"
  /\ LockFree(p)
  /\ IF ChanCloseSeesClosed(cw_cur[p].w)
     THEN /\ cw_pc' = [cw_pc EXCEPT ![p] = "c_unlock"]
          /\ UNCHANGED <<cw_closed, cw_chCloses, cw_panic>>
     ELSE /\ cw_closed' = [cw_closed EXCEPT ![cw_cur[p].w] = TRUE]
          /\ cw_chCloses' = cw_chCloses + 1
          /\ IF cw_chCloses > 0
             THEN /\ cw_panic' = TRUE
                  /\ cw_pc' = [cw_pc EXCEPT ![p] = "panicked"]
             ELSE /\ cw_pc' = [cw_pc EXCEPT ![p] = "c_unlock"]
                  /\ UNCHANGED cw_panic
  /\ UNCHANGED <<notCw, cw_writers, cw_cap, cw_ch, cw_readers, cw_pending,
                 cw_cur, cw_last, cw_calls, cw_writes, cw_okRecs,
                 cw_closeReturned, cr_closed, cr_pc, cr_out>>

\* Close: the deferred w.mu.Unlock(), return nil.
ChanCloseReturn(p) ==
  /\ cw_pc[p] = "c_unlock"
  /\ cw_pending' = [cw_pending EXCEPT ![cw_cur[p].w] = @ \ {p}]
  /\ CwReturn(p, "nil")
  /\ UNCHANGED <<notCw, cw_writers, cw_cap, cw_ch, cw_chCloses, cw_panic,
                 cw_closed, cw_readers, cw_calls, cw_writes, cr_closed, cr_pc,
                 cr_out>>

\* ChannelReader.Read without its check of r.closed.
ReaderSeesClosedNever == FALSE

\* ChannelReader.Read: if r.closed
ReaderSeesClosed == cr_closed

\* ChannelReader.Read is called: a closed reader returns io.EOF at once,
\* otherwise the call waits in record, ok := <-r.ch.
ChanReadCall ==
  /\ cr_pc = "idle"
  /\ Len(cr_out) < MaxCalls
  /\ IF ReaderSeesClosed
     THEN /\ cr_out' = Append(cr_out, 0)
          /\ UNCHANGED cr_pc
     ELSE /\ cr_pc' = "recv"
          /\ UNCHANGED cr_out
  /\ UNCHANGED <<notCw, cw_writers, cw_cap, cw_ch, cw_chCloses, cw_panic,
                 cw_closed, cw_readers, cw_pending, cw_pc, cw_cur, cw_last,
                 cw_calls, cw_writes, cw_okRecs, cw_closeReturned, cr_closed>>

\* Read: a buffered record is received and returned.
ChanReadRecv ==
  /\ cr_pc = "recv"
  /\ cw_ch # <<>>
  /\ cr_out' = Append(cr_out, Head(cw_ch))
  /\ cw_ch' = Tail(cw_ch)
  /\ cr_pc' = "idle"
  /\ UNCHANGED <<notCw, cw_writers, cw_cap, cw_chCloses, cw_panic, cw_closed,
                 cw_readers, cw_pending, cw_pc, cw_cur, cw_last, cw_calls,
                 cw_writes, cw_okRecs, cw_closeReturned, cr_closed>>

\* Read: the channel is closed and empty (ok false): r.closed = true, io.EOF.
ChanReadEOF ==
  /\ cr_pc = "recv"
  /\ cw_ch = <<>>
  /\ cw_chCloses > 0
  /\ cr_closed' = TRUE
  /\ cr_out' = Append(cr_out, 0)
  /\ cr_pc' = "idle"
  /\ UNCHANGED <<notCw, cw_writers, cw_cap, cw_ch, cw_chCloses, cw_panic,
                 cw_closed, cw_readers, cw_pending, cw_pc, cw_cur, cw_last,
                 cw_calls, cw_writes, cw_okRecs, cw_closeReturned>>

\* ChannelReader.Close: r.closed = true, return nil.  The reader has no
\* lock; its Read and Close are the calls of one goroutine, so Close is
\* called while no Read is waiting.
ChanReaderClose ==
  /\ cr_pc = "idle"
  /\ ~cr_closed
  /\ cr_closed' = TRUE
  /\ UNCHANGED <<notCw, cw_writers, cw_cap, cw_ch, cw_chCloses, cw_panic,
                 cw_closed, cw_readers, cw_pending, cw_pc, cw_cur, cw_last,
                 cw_calls, cw_writes, cw_okRecs, cw_closeReturned, cr_pc,
                 cr_out>>

\* The steps of goroutine p inside a Write or a Close.
ChanWriterSteps(p) ==
  \/ ChanWriteRLock(p)
  \/ ChanWriteClosed(p)
  \/ ChanWriteOpen(p)
  \/ ChanWriteSend(p)
  \/ ChanWriteHandOff(p)
  \/ ChanCloseLocked(p)
  \/ ChanCloseReturn(p)

ChanNext ==
  \/ \E p \in AProcs : \E w \in cw_writers : ChanWriteCall(p, w)
  \/ \E p \in AProcs : ChanWriteRLock(p)
  \/ \E p \in AProcs : ChanWriteClosed(p)
  \/ \E p \in AProcs : ChanWriteOpen(p)
  \/ \E p \in AProcs : ChanWriteSend(p)
  \/ \E p \in AProcs : ChanWriteHandOff(p)
  \/ \E p \in AProcs : \E w \in cw_writers : ChanFlush(p, w)
  \/ \E p \in AProcs : \E w \in cw_writers : ChanCloseCall(p, w)
  \/ \E p \in AProcs : ChanCloseLocked(p)
  \/ \E p \in AProcs : ChanCloseReturn(p)
  \/ ChanReadCall
  \/ ChanReadRecv
  \/ ChanReadEOF
  \/ ChanReaderClose

(***************************************************************************)
(* LoggingTransport.  Strings are sequences of one-character strings, a    *)
(* body is a byte sequence or nil, SampleRate and the random draw are in   *)
(* percent.  A LoggingTransport keeps no state between calls, so each      *)
(* behaviour is one construction followed by one RoundTrip.                *)
(***************************************************************************)
NilBody == [nil |-> TRUE, data |-> <<>>]

Bytes(n) == [nil |-> FALSE, data |-> [i \in 1..n |-> i]]

\* The options a LoggingTransport is constructed with.
LoggingOptionsSet ==
  [SampleRate : {0, 50, 100},
   SkipPaths : {<<>>, << <<"/", "h">> >>},
   AllowMethods : {<<>>, << <<"g", "e", "t">> >>},
   AllowHosts : {<<>>, << <<"a">> >>},
   SkipStatusCodes : {<<>>, <<404>>},
   IncludeRequestBody : BOOLEAN,
   IncludeResponseBody : BOOLEAN,
   MaxBodySize : 0..MaxBodyLimit]

\* The requests given to RoundTrip.
Requests ==
  [Method : {<<"G", "E", "T">>, <<"P", "U", "T">>},
   Path : {<<"/", "h", "1">>, <<"/", "a">>},
   Hosts : {[URLHost |-> <<"a">>, Host |-> <<>>],
            [URLHost |-> <<>>, Host |-> <<"A">>],
            [URLHost |-> <<>>, Host |-> <<"b">>]},
   Body : {NilBody, Bytes(0), Bytes(MaxBodyLen)}]

\* What t.Base.RoundTrip returns: an error, or a response.
BaseOutcomes ==
  {[err |-> TRUE, StatusCode |-> 0, Body |-> NilBody]}
  \cup [err : {FALSE}, StatusCode : {200, 404},
        Body : {Bytes(1), Bytes(MaxBodyLen)}]

NoRoundTrip ==
  [op |-> "none",
   req |-> [Method |-> <<>>, Path |-> <<>>,
            Hosts |-> [URLHost |-> <<>>, Host |-> <<>>], Body |-> NilBody],
   draw |-> 0,
   base |-> [err |-> TRUE, StatusCode |-> 0, Body |-> NilBody],
   writeErr |-> FALSE,
   baseCalls |-> 0, baseBody |-> NilBody,
   retErr |-> FALSE, retResp |-> FALSE, retStatus |-> 0, retBody |-> NilBody,
   written |-> <<>>, handled |-> 0]

\* NewLoggingTransport with WithLoggingOptions and, maybe,
\* WithTransportErrorHandler.
TransportInit ==
  /\ lt_opts \in LoggingOptionsSet
  /\ lt_handler \in BOOLEAN
  /\ lt_last = NoRoundTrip

\* The transport at rest, for the specifications that do not use it.
TransportIdle ==
  /\ lt_opts = [SampleRate |-> 100, SkipPaths |-> <<>>, AllowMethods |-> <<>>,
                AllowHosts |-> <<>>, SkipStatusCodes |-> <<>>,
                IncludeRequestBody |-> TRUE, IncludeResponseBody |-> TRUE,
                MaxBodySize |-> 0]
  /\ lt_handler = FALSE
  /\ lt_last = NoRoundTrip

\* strings.HasPrefix
HasPrefix(s, prefix) ==
  /\ Len(prefix) <= Len(s)
  /\ SubSeq(s, 1, Len(prefix)) = prefix

\* The case folding of one ASCII letter.
ToLower(c) ==
  CASE c = "A" -> "a"
    [] c = "B" -> "b"
    [] c = "E" -> "e"
    [] c = "G" -> "g"
    [] c = "P" -> "p"
    [] c = "T" -> "t"
    [] c = "U" -> "u"
    [] OTHER -> c

\* strings.EqualFold
EqualFold(s, t) ==
  /\ Len(s) = Len(t)
  /\ \A i \in 1..Len(s) : ToLower(s[i]) = ToLower(t[i])

\* host := req.URL.Host; if host == "" { host = req.Host }
HostOf(req) ==
  IF req.Hosts.URLHost = <<>> THEN req.Hosts.Host ELSE req.Hosts.URLHost

\* shouldLogRequest: sampling, path prefixes, methods, hosts.
shouldLogRequest(opts, req, draw) ==
  /\ ~(opts.SampleRate > 0 /\ opts.SampleRate < 100 /\ draw > opts.SampleRate)
  /\ ~\E i \in 1..Len(opts.SkipPaths) : HasPrefix(req.Path, opts.SkipPaths[i])
  /\ Len(opts.AllowMethods) > 0 =>
       \E i \in 1..Len(opts.AllowMethods) :
          EqualFold(req.Method, opts.AllowMethods[i])
  /\ Len(opts.AllowHosts) > 0 =>
       \E i \in 1..Len(opts.AllowHosts) :
          EqualFold(HostOf(req), opts.AllowHosts[i])

\* A response filter that lets every status through.
shouldLogResponseAlways(opts, resp) == TRUE

\* shouldLogResponse: the status code filter.
shouldLogResponse(opts, resp) ==
  ~\E i \in 1..Len(opts.SkipStatusCodes) :
      resp.StatusCode = opts.SkipStatusCodes[i]

\* readBody: io.ReadAll of the body, through io.LimitReader(body, maxSize)
\* when maxSize > 0.
readBody(body, maxSize) ==
  IF body.nil THEN NilBody
  ELSE IF maxSize > 0 /\ Len(body.data) > maxSize
       THEN [nil |-> FALSE, data |-> SubSeq(body.data, 1, maxSize)]
       ELSE body

\* captureRequest: the IR request and the body bytes read.
captureRequest(opts, req) ==
  LET bodyBytes == IF opts.IncludeRequestBody /\ ~req.Body.nil
                   THEN readBody(req.Body, opts.MaxBodySize)
                   ELSE NilBody
  IN [ir |-> [method |-> req.Method, path |-> req.Path, host |-> HostOf(req),
              body |-> bodyBytes.data],
      bodyBytes |-> bodyBytes]

\* captureResponse: the IR response and the body bytes read.
captureResponse(opts, resp) ==
  LET bodyBytes == IF opts.IncludeResponseBody /\ ~resp.Body.nil
                   THEN readBody(resp.Body, opts.MaxBodySize)
                   ELSE NilBody
  IN [ir |-> [status |-> resp.StatusCode, body |-> bodyBytes.data],
      bodyBytes |-> bodyBytes]

\* if reqBody != nil { req.Body = io.NopCloser(bytes.NewReader(reqBody)) },
\* and the same for the response.
Restored(body, bodyBytes) == IF bodyBytes.nil THEN body ELSE bodyBytes

\* A RoundTrip that reports the wrapped transport's error to the error handler.
RoundTripReportsBaseError(opts, handler, req, draw, base, writeErr) ==
  [NoRoundTrip EXCEPT !.op = "RoundTrip", !.req = req, !.draw = draw,
     !.base = base, !.writeErr = writeErr, !.baseCalls = 1,
     !.baseBody = req.Body, !.retErr = base.err, !.retResp = ~base.err,
     !.retStatus = base.StatusCode, !.retBody = base.Body,
     !.handled = IF base.err /\ handler THEN 1 ELSE 0]

\* RoundTrip: what the base transport saw, what the caller got, what was
\* handed to the writer and to the error handler.
RoundTrip(opts, handler, req, draw, base, writeErr) ==
  LET call == [NoRoundTrip EXCEPT !.op = "RoundTrip", !.req = req,
                 !.draw = draw, !.base = base, !.writeErr = writeErr,
                 !.baseCalls = 1]
      passed == [call EXCEPT !.retErr = base.err, !.retResp = ~base.err,
                   !.retStatus = base.StatusCode, !.retBody = base.Body]
  IN IF ~shouldLogRequest(opts, req, draw)
     THEN [passed EXCEPT !.baseBody = req.Body]
     ELSE LET creq == captureRequest(opts, req)
              sent == [passed EXCEPT
                         !.baseBody = Restored(req.Body, creq.bodyBytes)]
          IN IF base.err THEN sent
             ELSE IF ~shouldLogResponse(opts, base) THEN sent
             ELSE LET cresp == captureResponse(opts, base)
                      record == [request |-> creq.ir, response |-> cresp.ir]
                  IN [sent EXCEPT
                        !.retBody = Restored(base.Body, cresp.bodyBytes),
                        !.written = <<record>>,
                        !.handled = IF writeErr /\ handler THEN 1 ELSE 0]

\* One call of RoundTrip on the transport.
TransportRoundTrip ==
  /\ lt_last.op = "none"
  /\ \E req \in Requests, draw \in {25, 75}, base \in BaseOutcomes,
        writeErr \in BOOLEAN :
       lt_last' = RoundTrip(lt_opts, lt_handler, req, draw, base, writeErr)
  /\ UNCHANGED <<notLt, lt_opts, lt_handler>>

TransportNext == TransportRoundTrip

(***************************************************************************)
(* Providers.  A string is a sequence of characters, each named by a       *)
(* string: "QUOTE", "BACKSLASH" and "LF" are the characters that JSON      *)
(* escapes, "BAD" is a byte that is not valid UTF-8 and "RUNE_FFFD" is the *)
(* replacement character.  The bytes of a file are a sequence of tokens    *)
(* [c, n]: the text c taking n bytes; a run of n equal characters is one   *)
(* token.                                                                  *)
(***************************************************************************)
ProviderKinds == {"ndjson", "gzip", "storage", "storage.gz", "channel"}

FileKinds == ProviderKinds \ {"channel"}

GzipKinds == {"gzip", "storage.gz"}

Tok(c, n) == [c |-> c, n |-> n]

\* json.Marshal of one character of a string.
EscapeCharRaw(c) == <<Tok(c, 1)>>

\* json.Marshal of one character of a string: the quote, the backslash and
\* the newline are escaped, a byte that is not valid UTF-8 becomes \ufffd.
EscapeChar(c) ==
  CASE c = "QUOTE" -> <<Tok("BACKSLASH", 1), Tok("QUOTE", 1)>>
    [] c = "BACKSLASH" -> <<Tok("BACKSLASH", 1), Tok("BACKSLASH", 1)>>
    [] c = "LF" -> <<Tok("BACKSLASH", 1), Tok("n", 1)>>
    [] c = "BAD" -> <<Tok("BACKSLASH", 1), Tok("ufffd", 5)>>
    [] OTHER -> <<Tok(c, 1)>>

RECURSIVE EncodeString(_)
\* json.Marshal of a string: the escaped characters between quotes.
EncodeString(s) ==
  IF s = <<>> THEN <<>> ELSE EscapeChar(Head(s)) \o EncodeString(Tail(s))

Quoted(s) == <<Tok("QUOTE", 1)>> \o EncodeString(s) \o <<Tok("QUOTE", 1)>>

DigitChars == <<"0", "1", "2", "3", "4", "5", "6", "7", "8", "9">>

RECURSIVE EncodeInt(_)
\* json.Marshal of a non-negative int: its decimal digits.
EncodeInt(n) ==
  IF n < 10 THEN <<Tok(DigitChars[n + 1], 1)>>
  ELSE EncodeInt(n \div 10) \o <<Tok(DigitChars[(n % 10) + 1], 1)>>

\* json.Marshal(record): the fields in struct order; a nil id and an absent
\* body are omitted (omitempty).  The body is a string of r.body characters.
Marshal(r) ==
  <<Tok("{", 1)>>
  \o (IF r.id.nil THEN <<>>
      ELSE <<Tok("\"id\":", 5)>> \o Quoted(r.id.s) \o <<Tok(",", 1)>>)
  \o <<Tok("\"request\":{\"method\":", 20)>> \o Quoted(r.method)
  \o <<Tok(",\"path\":", 8)>> \o Quoted(r.path)
  \o (IF r.body = 0 THEN <<>>
      ELSE <<Tok(",\"body\":", 8), Tok("QUOTE", 1), Tok("x", r.body),
             Tok("QUOTE", 1)>>)
  \o <<Tok("},\"response\":{\"status\":", 23)>> \o EncodeInt(r.status)
  \o <<Tok("}}", 2)>>

RECURSIVE ByteLen(_)
\* The number of bytes of a token sequence.
ByteLen(toks) == IF toks = <<>> THEN 0 ELSE Head(toks).n + ByteLen(Tail(toks))

\* The character an escape sequence stands for, "" if there is none.
Unescape(c) ==
  CASE c = "QUOTE" -> "QUOTE"
    [] c = "BACKSLASH" -> "BACKSLASH"
    [] c = "n" -> "LF"
    [] c = "ufffd" -> "RUNE_FFFD"
    [] OTHER -> ""

RECURSIVE DecodeString(_, _, _, _)
\* json.Unmarshal of a string whose opening quote is before position i: the
\* characters up to the closing quote, their byte count and the position
\* after it.  A raw newline inside a string is a syntax error.
DecodeString(toks, i, s, n) ==
  IF i > Len(toks) THEN [ok |-> FALSE, s |-> <<>>, n |-> 0, next |-> i]
  ELSE IF toks[i].c = "QUOTE" THEN [ok |-> TRUE, s |-> s, n |-> n, next |-> i + 1]
  ELSE IF toks[i].c = "LF" THEN [ok |-> FALSE, s |-> <<>>, n |-> 0, next |-> i]
  ELSE IF toks[i].c = "BACKSLASH"
       THEN IF i + 1 > Len(toks) \/ Unescape(toks[i + 1].c) = ""
            THEN [ok |-> FALSE, s |-> <<>>, n |-> 0, next |-> i]
            ELSE DecodeString(toks, i + 2,
                              Append(s, Unescape(toks[i + 1].c)), n + 1)
       ELSE DecodeString(toks, i + 1, Append(s, toks[i].c), n + toks[i].n)

\* The value of a decimal digit, -1 for any other token.
DigitValue(c) ==
  IF \E d \in 1..10 : DigitChars[d] = c
  THEN (CHOOSE d \in 1..10 : DigitChars[d] = c) - 1
  ELSE -1

RECURSIVE DecodeInt(_, _, _)
\* json.Unmarshal of an int starting at position i, read after value v.
DecodeInt(toks, i, v) ==
  IF i <= Len(toks) /\ DigitValue(toks[i].c) >= 0
  THEN DecodeInt(toks, i + 1, v * 10 + DigitValue(toks[i].c))
  ELSE [v |-> v, next |-> i]

NoRecord == [id |-> [nil |-> TRUE, s |-> <<>>], method |-> <<>>,
             path |-> <<>>, status |-> 0, body |-> 0]

DecodeFailed == [ok |-> FALSE, rec |-> NoRecord]

\* The token at position i is c.
At(toks, i, c) == i <= Len(toks) /\ toks[i].c = c

\* json.Unmarshal(line, &record) of a line written by Marshal.
Unmarshal(toks) ==
  IF ~At(toks, 1, "{") THEN DecodeFailed
  ELSE
  LET hasId == At(toks, 2, "\"id\":") /\ At(toks, 3, "QUOTE")
      id == IF hasId THEN DecodeString(toks, 4, <<>>, 0)
            ELSE [ok |-> TRUE, s |-> <<>>, n |-> 0, next |-> 2]
      afterId == IF hasId THEN id.next + 1 ELSE 2
  IN IF ~id.ok \/ (hasId /\ ~At(toks, id.next, ",")) THEN DecodeFailed
     ELSE IF ~(At(toks, afterId, "\"request\":{\"method\":")
               /\ At(toks, afterId + 1, "QUOTE")) THEN DecodeFailed
     ELSE
     LET method == DecodeString(toks, afterId + 2, <<>>, 0)
     IN IF ~method.ok \/ ~(At(toks, method.next, ",\"path\":")
                           /\ At(toks, method.next + 1, "QUOTE"))
        THEN DecodeFailed
        ELSE
        LET path == DecodeString(toks, method.next + 2, <<>>, 0)
            hasBody == path.ok /\ At(toks, path.next, ",\"body\":")
                         /\ At(toks, path.next + 1, "QUOTE")
            body == IF hasBody THEN DecodeString(toks, path.next + 2, <<>>, 0)
                    ELSE [ok |-> TRUE, s |-> <<>>, n |-> 0, next |-> path.next]
        IN IF ~path.ok \/ ~body.ok
              \/ ~At(toks, body.next, "},\"response\":{\"status\":")
              \/ ~(body.next + 1 <= Len(toks)
                   /\ DigitValue(toks[body.next + 1].c) >= 0)
           THEN DecodeFailed
           ELSE
           LET status == DecodeInt(toks, body.next + 1, 0)
           IN IF ~(At(toks, status.next, "}}") /\ status.next = Len(toks))
              THEN DecodeFailed
              ELSE [ok |-> TRUE,
                    rec |-> [id |-> [nil |-> ~hasId, s |-> id.s],
                             method |-> method.s, path |-> path.s,
                             status |-> status.v, body |-> body.n]]

\* strings.TrimSpace on a line: leading and trailing white space removed.
IsSpace(t) == t.c \in {" ", "CR", "TAB"}

RECURSIVE TrimLeft(_)
TrimLeft(toks) ==
  IF toks # <<>> /\ IsSpace(Head(toks)) THEN TrimLeft(Tail(toks)) ELSE toks

RECURSIVE TrimRight(_)
TrimRight(toks) ==
  IF toks # <<>> /\ IsSpace(toks[Len(toks)])
  THEN TrimRight(SubSeq(toks, 1, Len(toks) - 1))
  ELSE toks

TrimSpace(toks) == TrimRight(TrimLeft(toks))

\* bufio.Scanner with ScanLines: the next line of `rest` and what follows it.
\* A line that does not end within maxTokenSize bytes is ErrTooLong;
\* maxTokenSize 0 stands for a scanner without limit.
ScanLine(rest, maxTokenSize) ==
  LET ends == {i \in 1..Len(rest) : rest[i].c = "LF"}
      k == IF ends = {} THEN 0 ELSE CHOOSE i \in ends : \A j \in ends : i <= j
      line == IF k = 0 THEN rest ELSE SubSeq(rest, 1, k - 1)
  IN [tooLong |-> maxTokenSize > 0 /\ ByteLen(line) >= maxTokenSize,
      line |-> line,
      after |-> IF k = 0 THEN <<>> ELSE SubSeq(rest, k + 1, Len(rest))]

RECURSIVE ReadLine(_, _, _)
\* NDJSONReader.Read: scan lines, skip the empty ones, decode the first
\* non-empty one; io.EOF when the scanner has no more lines.
ReadLine(rest, lineNum, maxTokenSize) ==
  IF rest = <<>>
  THEN [kind |-> "eof", rec |-> NoRecord, rest |-> rest, lineNum |-> lineNum]
  ELSE LET sc == ScanLine(rest, maxTokenSize)
       IN IF sc.tooLong
          THEN [kind |-> "err", rec |-> NoRecord, rest |-> rest,
                lineNum |-> lineNum]
          ELSE IF TrimSpace(sc.line) = <<>>
               THEN ReadLine(sc.after, lineNum + 1, maxTokenSize)
               ELSE LET d == Unmarshal(TrimSpace(sc.line))
                    IN [kind |-> IF d.ok THEN "rec" ELSE "err", rec |-> d.rec,
                        rest |-> sc.after, lineNum |-> lineNum + 1]

GzipHeader == Tok("GZIP_HEADER", 10)

GzipTrailer == Tok("GZIP_TRAILER", 8)

\* gzip.Reader over the bytes of a file: the payload between the header and
\* the trailer of a complete gzip stream.
Gunzip(bytes) ==
  IF Len(bytes) >= 2 /\ bytes[1] = GzipHeader /\ bytes[Len(bytes)] = GzipTrailer
  THEN [ok |-> TRUE, data |-> SubSeq(bytes, 2, Len(bytes) - 1)]
  ELSE [ok |-> FALSE, data |-> <<>>]

(***************************************************************************)
(* One provider, one writer and one reader obtained from it, on one path.  *)
(***************************************************************************)
Some(s) == [nil |-> FALSE, s |-> s]

BaseRecord == [id |-> Some(<<"i">>), method |-> <<"G", "E", "T">>,
               path |-> <<"/", "a">>, status |-> 200, body |-> 0]

\* The body size with which BaseRecord's line is ScannerMaxTokenSize bytes.
BoundaryFill ==
  ScannerMaxTokenSize - (ByteLen(Marshal([BaseRecord EXCEPT !.body = 1])) - 1)

\* The records given to Write: BaseRecord, and variations of it.
TestRecords ==
  {BaseRecord,
   [BaseRecord EXCEPT !.id = [nil |-> TRUE, s |-> <<>>]],
   [BaseRecord EXCEPT !.id = Some(<<>>)],
   [BaseRecord EXCEPT !.id = Some(<<"QUOTE", "BAD">>)],
   [BaseRecord EXCEPT !.method = <<"P", "O", "S", "T">>],
   [BaseRecord EXCEPT !.path = <<"/", "LF", "a">>,
               !.id = [nil |-> TRUE, s |-> <<>>]],
   [BaseRecord EXCEPT !.path = <<"/", "QUOTE", "BACKSLASH">>],
   [BaseRecord EXCEPT !.path = <<"/", "BAD">>],
   [BaseRecord EXCEPT !.status = 404],
   [BaseRecord EXCEPT !.status = 0],
   [BaseRecord EXCEPT !.body = BoundaryFill - 1],
   [BaseRecord EXCEPT !.body = BoundaryFill]}

\* The line limits the NDJSON reader of the external storage library may have
\* (0: none).
ExternalLimits == {0, 65536}

\* The provider, before NewWriter and NewReader.
ProviderStart ==
  /\ pv_wstate = "none"
  /\ pv_written = <<>>
  /\ pv_buf = <<>>
  /\ pv_store = <<>>
  /\ pv_ch = <<>>
  /\ pv_rstate = "none"
  /\ pv_rest = <<>>
  /\ pv_lineNum = 0
  /\ pv_out = <<>>

\* NDJSON(), GzipNDJSON(), Storage(backend) with a plain or a .gz path, and
\* Channel(WithChannelProviderBufferSize(n)).
ProviderInit ==
  /\ pv_kind \in ProviderKinds
  /\ pv_extLimit \in IF pv_kind \in {"storage", "storage.gz"}
                     THEN ExternalLimits ELSE {0}
  /\ pv_cap \in IF pv_kind = "channel" THEN 0..MaxRecords ELSE {0}
  /\ ProviderStart

\* The provider at rest, for the specifications that do not use it.
ProviderIdle ==
  /\ pv_kind = "channel"
  /\ pv_extLimit = 0
  /\ pv_cap = 0
  /\ ProviderStart

\* The maximum line size of the provider's reader (0: none).
LineLimit ==
  CASE pv_kind \in {"ndjson", "gzip"} -> ScannerMaxTokenSize
    [] pv_kind \in {"storage", "storage.gz"} -> pv_extLimit
    [] OTHER -> 0

\* Provider.NewWriter: a file provider creates (truncates) the file.
ProvNewWriter ==
  /\ pv_wstate = "none"
  /\ pv_wstate' = "open"
  /\ pv_store' = <<>>
  /\ UNCHANGED <<notPv, pv_kind, pv_extLimit, pv_cap, pv_written, pv_buf, pv_ch,
                 pv_rstate, pv_rest, pv_lineNum, pv_out>>

\* Write on a file writer: the marshalled record and a newline go to the
\* writer's buffer.
ProvWriteFile(r) ==
  /\ pv_kind \in FileKinds
  /\ pv_wstate = "open"
  /\ Len(pv_written) < MaxRecords
  /\ pv_buf' = pv_buf \o Marshal(r) \o <<Tok("LF", 1)>>
  /\ pv_written' = Append(pv_written, r)
  /\ UNCHANGED <<notPv, pv_kind, pv_extLimit, pv_cap, pv_wstate, pv_store, pv_ch,
                 pv_rstate, pv_rest, pv_lineNum, pv_out>>

\* Write on a channel writer: the record itself is sent; the send needs a
\* free buffer slot, or a reader receiving (its Read then returns the record).
ProvWriteChan(r) ==
  /\ pv_kind = "channel"
  /\ pv_wstate = "open"
  /\ Len(pv_written) < MaxRecords
  /\ IF Len(pv_ch) < pv_cap
     THEN /\ pv_ch' = Append(pv_ch, r)
          /\ UNCHANGED pv_out
     ELSE /\ pv_ch = <<>>
          /\ pv_rstate = "open"
          /\ pv_out' = Append(pv_out, [kind |-> "rec", rec |-> r])
          /\ UNCHANGED pv_ch
  /\ pv_written' = Append(pv_written, r)
  /\ UNCHANGED <<notPv, pv_kind, pv_extLimit, pv_cap, pv_wstate, pv_buf, pv_store,
                 pv_rstate, pv_rest, pv_lineNum>>

\* What reaches the file when the buffer is flushed: a gzip writer puts its
\* header before the first bytes.
Flushed ==
  IF pv_kind \in GzipKinds /\ pv_store = <<>>
  THEN <<GzipHeader>> \o pv_buf
  ELSE pv_store \o pv_buf

\* Flush on a file writer.
ProvFlush ==
  /\ pv_kind \in FileKinds
  /\ pv_wstate = "open"
  /\ pv_buf # <<>>
  /\ pv_store' = Flushed
  /\ pv_buf' = <<>>
  /\ UNCHANGED <<notPv, pv_kind, pv_extLimit, pv_cap, pv_wstate, pv_written, pv_ch,
                 pv_rstate, pv_rest, pv_lineNum, pv_out>>

\* A Close that drops what the writer still buffers.
ClosedBytesUnflushed ==
  IF pv_kind \in GzipKinds THEN pv_store \o <<GzipTrailer>> ELSE pv_store

\* The bytes of the file once the writer is closed: the buffer is flushed, and
\* a gzip writer ends the stream with its trailer.
ClosedBytes ==
  IF pv_kind \in GzipKinds THEN Flushed \o <<GzipTrailer>> ELSE Flushed

\* Close on the writer: a file writer flushes and closes the file; a channel
\* writer closes the channel.
ProvClose ==
  /\ pv_wstate = "open"
  /\ pv_wstate' = "closed"
  /\ IF pv_kind \in FileKinds
     THEN /\ pv_store' = ClosedBytes
          /\ pv_buf' = <<>>
     ELSE UNCHANGED <<pv_store, pv_buf>>
  /\ UNCHANGED <<notPv, pv_kind, pv_extLimit, pv_cap, pv_written, pv_ch, pv_rstate,
                 pv_rest, pv_lineNum, pv_out>>

\* Provider.NewReader on a path whose writer was closed: the file is opened;
\* a gzip reader reads the stream's header, and fails without one.
ProvNewReaderFile ==
  /\ pv_kind \in FileKinds
  /\ pv_wstate = "closed"
  /\ pv_rstate = "none"
  /\ IF pv_kind \in GzipKinds
     THEN IF Gunzip(pv_store).ok
          THEN /\ pv_rest' = Gunzip(pv_store).data
               /\ pv_rstate' = "open"
               /\ UNCHANGED pv_out
          ELSE /\ pv_out' = <<[kind |-> "err", rec |-> NoRecord]>>
               /\ pv_rstate' = "done"
               /\ UNCHANGED pv_rest
     ELSE /\ pv_rest' = pv_store
          /\ pv_rstate' = "open"
          /\ UNCHANGED pv_out
  /\ UNCHANGED <<notPv, pv_kind, pv_extLimit, pv_cap, pv_wstate, pv_written, pv_buf,
                 pv_store, pv_ch, pv_lineNum>>

\* ChannelProvider.NewReader: a reader on the provider's channel.
ProvNewReaderChan ==
  /\ pv_kind = "channel"
  /\ pv_rstate = "none"
  /\ pv_rstate' = "open"
  /\ UNCHANGED <<notPv, pv_kind, pv_extLimit, pv_cap, pv_wstate, pv_written, pv_buf,
                 pv_store, pv_ch, pv_rest, pv_lineNum, pv_out>>

\* Read on a file reader: the next record, an error, or io.EOF.
ProvReadFile ==
  /\ pv_kind \in FileKinds
  /\ pv_rstate = "open"
  /\ LET res == ReadLine(pv_rest, pv_lineNum, LineLimit)
     IN /\ pv_out' = Append(pv_out, [kind |-> res.kind, rec |-> res.rec])
        /\ pv_rest' = res.rest
        /\ pv_lineNum' = res.lineNum
        /\ pv_rstate' = IF res.kind = "rec" THEN "open" ELSE "done"
  /\ UNCHANGED <<notPv, pv_kind, pv_extLimit, pv_cap, pv_wstate, pv_written, pv_buf,
                 pv_store, pv_ch>>

\* Read on a channel reader: a buffered record, or io.EOF once the channel is
\* closed and empty.
ProvReadChan ==
  /\ pv_kind = "channel"
  /\ pv_rstate = "open"
  /\ IF pv_ch # <<>>
     THEN /\ pv_out' = Append(pv_out, [kind |-> "rec", rec |-> Head(pv_ch)])
          /\ pv_ch' = Tail(pv_ch)
          /\ UNCHANGED pv_rstate
     ELSE /\ pv_wstate = "closed"
          /\ pv_out' = Append(pv_out, [kind |-> "eof", rec |-> NoRecord])
          /\ pv_rstate' = "done"
          /\ UNCHANGED pv_ch
  /\ UNCHANGED <<notPv, pv_kind, pv_extLimit, pv_cap, pv_wstate, pv_written, pv_buf,
                 pv_store, pv_rest, pv_lineNum>>

ProviderNext ==
  \/ ProvNewWriter
  \/ \E r \in TestRecords : ProvWriteFile(r)
  \/ \E r \in TestRecords : ProvWriteChan(r)
  \/ ProvFlush
  \/ ProvClose
  \/ ProvNewReaderFile
  \/ ProvNewReaderChan
  \/ ProvReadFile
  \/ ProvReadChan

(***************************************************************************)
(* NDJSONWriter and GzipNDJSONWriter called by several goroutines.  Write  *)
(* takes no lock, so the statements of concurrent calls interleave; each   *)
(* call on w.w (w.gw) and each access to w.count is one step.              *)
(***************************************************************************)
FileWriterKinds == {"ndjson", "gzip"}

\* NewNDJSONWriter, NewGzipNDJSONWriter
FileWriterStart(kind) ==
  /\ nw_kind = kind
  /\ nw_out = <<>>
  /\ nw_count = 0
  /\ nw_pc = [p \in AProcs |-> "idle"]
  /\ nw_rec = [p \in AProcs |-> 0]
  /\ nw_tmp = [p \in AProcs |-> 0]
  /\ nw_ok = 0
  /\ nw_calls = 0
  /\ nw_overlap = FALSE

FileWriterInit == \E kind \in FileWriterKinds : FileWriterStart(kind)

\* The writer at rest, for the specifications that do not use it.
FileWriterIdle == FileWriterStart("ndjson")

\* Write is entered: data, err := json.Marshal(record) succeeds.
FileWriteCall(p) ==
  /\ nw_pc[p] = "idle"
  /\ nw_calls < MaxFileWrites
  /\ nw_calls' = nw_calls + 1
  /\ nw_rec' = [nw_rec EXCEPT ![p] = nw_calls + 1]
  /\ nw_pc' = [nw_pc EXCEPT ![p] = "data"]
  /\ nw_overlap' = (nw_overlap \/ \E q \in AProcs \ {p} : nw_pc[q] # "idle")
  /\ UNCHANGED <<notNw, nw_kind, nw_out, nw_count, nw_tmp, nw_ok>>

\* w.w.Write(data) / w.gw.Write(data): the bytes are appended, or the call
\* fails and Write returns the error.
FileWriteData(p) ==
  /\ nw_pc[p] = "data"
  /\ \E ok \in BOOLEAN :
       IF ok
       THEN /\ nw_out' = Append(nw_out, [c |-> "data", rec |-> nw_rec[p]])
            /\ nw_pc' = [nw_pc EXCEPT ![p] = "newline"]
       ELSE /\ nw_pc' = [nw_pc EXCEPT ![p] = "idle"]
            /\ UNCHANGED nw_out
  /\ UNCHANGED <<notNw, nw_kind, nw_count, nw_rec, nw_tmp, nw_ok, nw_calls,
                 nw_overlap>>

\* w.w.WriteString("\n") / w.gw.Write([]byte("\n"))
FileWriteNewline(p) ==
  /\ nw_pc[p] = "newline"
  /\ nw_out' = Append(nw_out, [c |-> "LF", rec |-> nw_rec[p]])
  /\ nw_pc' = [nw_pc EXCEPT ![p] = "load"]
  /\ UNCHANGED <<notNw, nw_kind, nw_count, nw_rec, nw_tmp, nw_ok, nw_calls,
                 nw_overlap>>

\* w.count++: the load of w.count.
FileWriteLoadCount(p) ==
  /\ nw_pc[p] = "load"
  /\ nw_tmp' = [nw_tmp EXCEPT ![p] = nw_count]
  /\ nw_pc' = [nw_pc EXCEPT ![p] = "store"]
  /\ UNCHANGED <<notNw, nw_kind, nw_out, nw_count, nw_rec, nw_ok, nw_calls,
                 nw_overlap>>

\* w.count++: the store of the incremented value; return nil.
FileWriteStoreCount(p) ==
  /\ nw_pc[p] = "store"
  /\ nw_count' = nw_tmp[p] + 1
  /\ nw_ok' = nw_ok + 1
  /\ nw_pc' = [nw_pc EXCEPT ![p] = "idle"]
  /\ UNCHANGED <<notNw, nw_kind, nw_out, nw_rec, nw_tmp, nw_calls, nw_overlap>>

FileWriterNext ==
  \E p \in AProcs :
     \/ FileWriteCall(p)
     \/ FileWriteData(p)
     \/ FileWriteNewline(p)
     \/ FileWriteLoadCount(p)
     \/ FileWriteStoreCount(p)

(***************************************************************************)
(* SchemaStore and the schema tree (package pkg/inference).  A string is a *)
(* sequence of one-character strings, so that paths can be joined and      *)
(* split as the code does.  A JSON value is a record [k, v, f]: k is the   *)
(* Go type of the decoded value ("nil", "bool", "float64", "string",       *)
(* "object", "array"), v is the literal of a scalar, f is the sequence of  *)
(* the [key, val] members of an object or of the elements of an array      *)
(* (their key is the empty string).  A Go map is a function; the order in  *)
(* which the code ranges over a map is the order of the members here: the  *)
(* members of one object have distinct keys, hence distinct paths, and the *)
(* calls made for distinct paths commute.                                  *)
(***************************************************************************)
EmptyMap == [x \in {} |-> 0]

\* m[k] = v
Put(m, k, v) == [x \in DOMAIN m \cup {k} |-> IF x = k THEN v ELSE m[x]]

\* m[k], or the zero value d when k is not a key of m
Lookup(m, k, d) == IF k \in DOMAIN m THEN m[k] ELSE d

Nil == [k |-> "nil", v |-> "", f |-> <<>>]

Scalar(k, v) == [k |-> k, v |-> v, f |-> <<>>]

Member(key, val) == [key |-> key, val |-> val]

Object(members) == [k |-> "object", v |-> "", f |-> members]

Array(elems) ==
  [k |-> "array", v |-> "", f |-> [i \in 1..Len(elems) |-> Member(<<>>, elems[i])]]

\* The float64 literals of the model whose value is a whole number.
WholeNumbers == {"1", "2", "30"}

\* inferType: the JSON Schema type of a decoded value.
inferType(value) ==
  CASE value.k = "nil" -> ""
    [] value.k = "bool" -> "boolean"
    [] value.k = "float64" ->
         IF value.v \in WholeNumbers THEN "integer" ELSE "number"
    [] value.k = "string" -> "string"
    [] value.k = "array" -> "array"
    [] value.k = "object" -> "object"
    [] OTHER -> "string"

\* mergeTypes: a type that encompasses both.
mergeTypes(t1, t2) ==
  IF t1 = "" THEN t2
  ELSE IF t2 = "" THEN t1
  ELSE IF t1 = t2 THEN t1
  ELSE IF {t1, t2} = {"integer", "number"} THEN "number"
  ELSE "string"

\* detectFormat on the string literals of the model: the patterns are tried
\* in the order uuid, email, date-time, date, time, uri, ipv4, ipv6.
detectFormat(s) ==
  CASE s = "" -> ""
    [] s = "550e8400-e29b-41d4-a716-446655440000" -> "uuid"
    [] s = "alice@example.com" -> "email"
    [] s = "bob@example.com" -> "email"
    [] s = "2024-01-02" -> "date"
    [] OTHER -> ""

\* joinPath: basePath + "." + key, or key when basePath is empty.
joinPath(basePath, key) ==
  IF basePath = <<>> THEN key ELSE basePath \o <<".">> \o key

RECURSIVE parsePathSegments(_)
\* parsePathSegments: strings.Split(path, ".")
parsePathSegments(path) ==
  LET dots == {i \in 1..Len(path) : path[i] = "."}
  IN IF dots = {} THEN <<path>>
     ELSE LET d == CHOOSE i \in dots : \A j \in dots : i <= j
          IN <<SubSeq(path, 1, d - 1)>>
               \o parsePathSegments(SubSeq(path, d + 1, Len(path)))

\* isArrayPath: strings.HasSuffix(segment, "[]")
isArrayPath(segment) ==
  /\ Len(segment) >= 2
  /\ segment[Len(segment) - 1] = "["
  /\ segment[Len(segment)] = "]"

\* stripArraySuffix: strings.TrimSuffix(segment, "[]")
stripArraySuffix(segment) ==
  IF isArrayPath(segment) THEN SubSeq(segment, 1, Len(segment) - 2)
  ELSE segment

\* NewSchemaStore
NewSchemaStore ==
  [Examples |-> EmptyMap, Types |-> EmptyMap, Optional |-> EmptyMap,
   Nullable |-> EmptyMap, Formats |-> EmptyMap, seenCount |-> EmptyMap,
   totalCount |-> 0]

\* SchemaStore.AddObservation
AddObservation(s) == [s EXCEPT !.totalCount = @ + 1]

\* A store that never finds the value among its examples.
hasExampleNever(examples, example) == FALSE

\* SchemaStore.hasExample: valuesEqual on some stored example.
hasExample(examples, example) ==
  \E i \in 1..Len(examples) : examples[i] = example

\* SchemaStore.AddValue
AddValue(s, path, value) ==
  LET seen == [s EXCEPT !.seenCount = Put(@, path, Lookup(@, path, 0) + 1)]
  IN IF value.k = "nil"
     THEN [seen EXCEPT !.Nullable = Put(@, path, TRUE)]
     ELSE
     LET typed == [seen EXCEPT !.Types =
                     IF path \in DOMAIN @
                     THEN Put(@, path, mergeTypes(@[path], inferType(value)))
                     ELSE Put(@, path, inferType(value))]
         format == IF value.k = "string" THEN detectFormat(value.v) ELSE ""
         formatted == IF format # ""
                      THEN [typed EXCEPT !.Formats =
                              Put(@, path, format)]
                      ELSE typed
         examples == Lookup(formatted.Examples, path, <<>>)
         example == [k |-> value.k, v |-> value.v]
     IN IF Len(examples) < MaxExamples
           /\ ~hasExample(examples, example)
        THEN [formatted EXCEPT !.Examples = Put(@, path, Append(examples, example))]
        ELSE formatted

\* isObjectArray: the first element is an object.
isObjectArray(arr) == Len(arr) > 0 /\ arr[1].val.k = "object"

RECURSIVE processValue(_, _, _)
RECURSIVE processObject(_, _, _)
RECURSIVE processItems(_, _, _)
RECURSIVE processPrimitives(_, _, _)

\* processValue
processValue(store, path, value) ==
  CASE value.k = "nil" -> AddValue(store, path, Nil)
    [] value.k = "object" -> processObject(store, path, value.f)
    [] value.k = "array" ->
         \* processArray
         LET arrayPath == path \o <<"[", "]">>
         IN IF Len(value.f) = 0 THEN AddValue(store, arrayPath, Nil)
            ELSE IF isObjectArray(value.f)
                 THEN processItems(store, arrayPath, value.f)
                 ELSE processPrimitives(store, arrayPath, value.f)
    [] OTHER -> AddValue(store, path, value)

\* processObject: for key, val := range obj
processObject(store, basePath, obj) ==
  IF obj = <<>> THEN store
  ELSE processObject(
         processValue(store, joinPath(basePath, Head(obj).key), Head(obj).val),
         basePath, Tail(obj))

\* processArray, an array of objects: the fields of each element that is an
\* object are processed under the array path.
processItems(store, arrayPath, arr) ==
  IF arr = <<>> THEN store
  ELSE processItems(
         IF Head(arr).val.k = "object"
         THEN processObject(store, arrayPath, Head(arr).val.f)
         ELSE store,
         arrayPath, Tail(arr))

\* processArray, an array of primitives: each element is added at the array
\* path.
processPrimitives(store, arrayPath, arr) ==
  IF arr = <<>> THEN store
  ELSE processPrimitives(AddValue(store, arrayPath, Head(arr).val),
                         arrayPath, Tail(arr))

\* ProcessBody
ProcessBody(store, body) ==
  IF body.k = "nil" THEN store
  ELSE processValue(AddObservation(store), <<>>, body)

\* SchemaStore.FinalizeOptional
FinalizeOptional(s) ==
  [s EXCEPT !.Optional =
     [p \in DOMAIN @ \cup {q \in DOMAIN s.seenCount :
                             s.seenCount[q] < s.totalCount} |->
        IF p \in DOMAIN s.seenCount /\ s.seenCount[p] < s.totalCount
        THEN TRUE ELSE @[p]]]

\* SchemaStore.GetPaths: the paths with examples, and those that only had
\* null values.
GetPaths(s) == DOMAIN s.Examples \cup DOMAIN s.Nullable

(***************************************************************************)
(* BuildSchemaTree.  A node of the tree is named by the sequence of path   *)
(* segments that leads to it; the schema tree is the function from these   *)
(* sequences to the SchemaNode built for them.                             *)
(***************************************************************************)
\* The characters of the model's paths, in byte order.
CharOrder == <<".", "[", "]", "a", "b", "n", "t", "u">>

CharRank(c) == CHOOSE i \in 1..Len(CharOrder) : CharOrder[i] = c

RECURSIVE StringLess(_, _)
\* a < b as Go compares strings
StringLess(a, b) ==
  IF b = <<>> THEN FALSE
  ELSE IF a = <<>> THEN TRUE
  ELSE IF Head(a) = Head(b) THEN StringLess(Tail(a), Tail(b))
  ELSE CharRank(Head(a)) < CharRank(Head(b))

RECURSIVE InsertSorted(_, _)
InsertSorted(sorted, x) ==
  IF sorted = <<>> THEN <<x>>
  ELSE IF StringLess(x, Head(sorted)) THEN <<x>> \o sorted
  ELSE <<Head(sorted)>> \o InsertSorted(Tail(sorted), x)

RECURSIVE SortStrings(_)
\* sort.Strings
SortStrings(list) ==
  IF list = <<>> THEN <<>>
  ELSE InsertSorted(SortStrings(Tail(list)), Head(list))

RECURSIVE SeqOfSet(_)
\* The elements of a set in some order: the order of a range over a map.
SeqOfSet(S) ==
  IF S = {} THEN <<>>
  ELSE LET x == CHOOSE y \in S : TRUE IN <<x>> \o SeqOfSet(S \ {x})

\* The paths BuildSchemaTree inserts, each as its segments.
InsertedPaths(store) == {parsePathSegments(p) : p \in GetPaths(store) \ {<<>>}}

\* insertPath: the nodes of the tree are the prefixes of the inserted paths.
TreeNodes(store) ==
  UNION {{SubSeq(segs, 1, n) : n \in 0..Len(segs)} :
           segs \in InsertedPaths(store)}

\* node.children: the keys of the children of a node.
Children(store, node) ==
  {segs[Len(node) + 1] :
     segs \in {t \in TreeNodes(store) :
                 Len(t) = Len(node) + 1 /\ SubSeq(t, 1, Len(node)) = node}}

\* node.isLeaf: the node ends an inserted path.
IsLeaf(store, node) == node # <<>> /\ node \in InsertedPaths(store)

RECURSIVE JoinSegments(_)
JoinSegments(segs) ==
  IF Len(segs) = 1 THEN segs[1]
  ELSE segs[1] \o <<".">> \o JoinSegments(Tail(segs))

\* node.fullPath: the inserted path the node ends, or the empty string.
FullPath(store, node) ==
  IF IsLeaf(store, node) THEN JoinSegments(node) ELSE <<>>

\* The child of a node under a key.
Child(node, key) == Append(node, key)

\* convertToSchemaNode: the child's property is listed as required.
ChildRequired(store, child) ==
  /\ FullPath(store, child) # <<>>
  /\ ~Lookup(store.Optional, FullPath(store, child), FALSE)

\* createLeafSchema
createLeafSchema(path, store) ==
  [Type |-> IF Lookup(store.Types, path, "") = "" THEN "string"
            ELSE store.Types[path],
   Format |-> Lookup(store.Formats, path, ""),
   Nullable |-> Lookup(store.Nullable, path, FALSE),
   Examples |-> Lookup(store.Examples, path, <<>>),
   Properties |-> {}, Required |-> <<>>]

\* convertToSchemaNode for one node: a leaf schema, the root array, or an
\* object schema with its properties and its sorted required list.
convertToSchemaNode(store, node, isRoot) ==
  LET keys == Children(store, node)
  IN IF IsLeaf(store, node) /\ keys = {}
     THEN createLeafSchema(FullPath(store, node), store)
     ELSE IF isRoot /\ (\A key \in keys : isArrayPath(key))
             /\ Cardinality(keys) = 1
     THEN [Type |-> "array", Format |-> "", Nullable |-> FALSE,
           Examples |-> <<>>, Properties |-> {}, Required |-> <<>>]
     ELSE LET order == SeqOfSet(keys)
              required == SelectSeq(order,
                            LAMBDA key : ChildRequired(store, Child(node, key)))
          IN [Type |-> "object", Format |-> "", Nullable |-> FALSE,
              Examples |-> <<>>,
              Properties |-> {stripArraySuffix(key) : key \in keys},
              Required |-> SortStrings([i \in 1..Len(required) |->
                                          stripArraySuffix(required[i])])]

\* BuildSchemaTree: the SchemaNode of every node of the tree.
BuildSchemaTree(store) ==
  IF DOMAIN store.Examples = {} /\ DOMAIN store.Nullable = {}
  THEN [node \in {<<>>} |->
          [Type |-> "object", Format |-> "", Nullable |-> FALSE,
           Examples |-> <<>>, Properties |-> {}, Required |-> <<>>]]
  ELSE [node \in TreeNodes(store) \cup {<<>>} |->
          convertToSchemaNode(store, node, node = <<>>)]

(***************************************************************************)
(* One SchemaStore fed with bodies, finalized and converted to a tree.     *)
(***************************************************************************)
Str(v) == Scalar("string", v)

Num(v) == Scalar("float64", v)

\* The bodies given to ProcessBody.
TestBodies ==
  {Nil,
   Object(<<Member(<<"a">>, Str("alice@example.com")),
            Member(<<"b">>, Num("30"))>>),
   Object(<<Member(<<"a">>, Str("bob@example.com"))>>),
   Object(<<Member(<<"a">>, Str("550e8400-e29b-41d4-a716-446655440000"))>>),
   Object(<<Member(<<"a">>, Str("Alice")), Member(<<"b">>, Num("1.5"))>>),
   Object(<<Member(<<"a">>, Nil),
            Member(<<"u">>, Object(<<Member(<<"n">>, Str("Alice"))>>))>>),
   Object(<<Member(<<"u">>, Object(<<Member(<<"n">>, Str("Bob")),
                                     Member(<<"b">>, Scalar("bool", "true"))>>))>>),
   Object(<<Member(<<"t">>, Array(<<Object(<<Member(<<"a">>, Num("1"))>>),
                                    Object(<<Member(<<"a">>, Num("2"))>>)>>))>>),
   Object(<<Member(<<"t">>, Array(<<Object(<<Member(<<"b">>, Num("1"))>>)>>))>>),
   Object(<<Member(<<"t">>, Array(<<>>))>>),
   Object(<<Member(<<"n">>, Array(<<Str("x"), Str("y")>>))>>),
   Object(<<Member(<<"n">>, Array(<<Str("z"), Str("x"), Str("w"), Str("v")>>))>>),
   Object(<<Member(<<"n">>, Array(<<Str("y"), Str("q"), Num("1")>>))>>),
   Array(<<Object(<<Member(<<"a">>, Num("1"))>>)>>)}

StoreStart ==
  /\ ss_store = NewSchemaStore
  /\ ss_bodies = <<>>
  /\ ss_final = FALSE
  /\ ss_built = FALSE
  /\ ss_tree = EmptyMap

\* NewSchemaStore
StoreInit == StoreStart

\* The store at rest, for the specifications that do not use it.
StoreIdle == StoreStart

\* ProcessBody(store, body)
StoreProcessBody ==
  /\ Len(ss_bodies) < MaxObservations
  /\ \E body \in TestBodies :
       /\ ss_store' = ProcessBody(ss_store, body)
       /\ ss_bodies' = Append(ss_bodies, body)
  /\ ss_final' = FALSE
  /\ ss_built' = FALSE
  /\ UNCHANGED <<notSs, ss_tree>>

\* store.FinalizeOptional()
StoreFinalizeOptional ==
  /\ ~ss_final
  /\ ss_store' = FinalizeOptional(ss_store)
  /\ ss_final' = TRUE
  /\ ss_built' = FALSE
  /\ UNCHANGED <<notSs, ss_bodies, ss_tree>>

\* BuildSchemaTree(store)
StoreBuildSchemaTree ==
  /\ ~ss_built
  /\ ss_tree' = BuildSchemaTree(ss_store)
  /\ ss_built' = TRUE
  /\ UNCHANGED <<notSs, ss_store, ss_bodies, ss_final>>

StoreNext ==
  \/ StoreProcessBody
  \/ StoreFinalizeOptional
  \/ StoreBuildSchemaTree

(***************************************************************************)
(* The inference engine: Engine, EndpointClusterer, ParamData and the      *)
(* detectors.  Header and parameter names, hosts and templates are         *)
(* strings; a Go map with such keys is a function, a map[string]string or  *)
(* map[string]any given in a record is a sequence of [name, value] pairs   *)
(* with distinct names.                                                    *)
(***************************************************************************)
Pair(name, value) == [name |-> name, value |-> value]

\* The names in a map given as pairs.
Names(pairs) == {pairs[i].name : i \in 1..Len(pairs)}

\* strings.ToLower on the header and parameter names of the model.
LowerName(name) ==
  CASE name = "Authorization" -> "authorization"
    [] name = "X-Api-Key" -> "x-api-key"
    [] name = "Accept" -> "accept"
    [] name = "X-RateLimit-Limit" -> "x-ratelimit-limit"
    [] name = "X-Tenant" -> "x-tenant"
    [] name = "Limit" -> "limit"
    [] OTHER -> name

\* strings.ToUpper on the methods of the model.
UpperMethod(method) ==
  CASE method = "get" -> "GET"
    [] method = "post" -> "POST"
    [] OTHER -> method

\* EndpointKey: strings.ToUpper(method) + " " + pathTemplate
EndpointKey(method, pathTemplate) == <<UpperMethod(method), pathTemplate>>

\* PathInferrer.InferTemplate on the paths of the model.
InferTemplate(path) ==
  CASE path = "/users/123" ->
         [template |-> "/users/{userId}", params |-> <<Pair("userId", "123")>>]
    [] OTHER -> [template |-> path, params |-> <<>>]

\* isExcludedHeader: excludedHeaders[strings.ToLower(name)]
isExcludedHeader(name) ==
  LowerName(name) \in {"accept", "content-type", "x-request-id"}

\* NewParamData
NewParamData(name) ==
  [Name |-> name, Examples |-> <<>>, Type |-> "string", Format |-> "",
   Required |-> TRUE, seenCount |-> 0]

\* ParamData.AddValue
ParamDataAddValue(p, value) ==
  LET typed == [p EXCEPT !.seenCount = @ + 1,
                         !.Type = IF @ = "" \/ @ = "string"
                                  THEN inferType(value)
                                  ELSE mergeTypes(@, inferType(value))]
      format == IF value.k = "string" THEN detectFormat(value.v) ELSE ""
      formatted == IF format # "" THEN [typed EXCEPT !.Format = format]
                   ELSE typed
      example == [k |-> value.k, v |-> value.v, n |-> Len(value.f)]
  IN IF Len(p.Examples) < 5
        /\ ~\E i \in 1..Len(p.Examples) : p.Examples[i] = example
     THEN [formatted EXCEPT !.Examples = Append(@, example)]
     ELSE formatted

RECURSIVE AddParams(_, _, _, _)
\* for name, value := range ...: the parameter is created on first sight
\* with the given Required flag, then the value is added.  Excluded names
\* are skipped.
AddParams(params, pairs, required, excluded) ==
  IF pairs = <<>> THEN params
  ELSE LET name == Head(pairs).name
           param == IF name \in DOMAIN params THEN params[name]
                    ELSE [NewParamData(name) EXCEPT !.Required = required]
       IN AddParams(
            IF name \in excluded THEN params
            ELSE Put(params, name, ParamDataAddValue(param, Head(pairs).value)),
            Tail(pairs), required, excluded)

\* The Required flag a query parameter is created with.
QueryParamStartsRequired == FALSE

\* Update query param optionality: a parameter missing in this request is
\* not required.
LowerRequired(params, query) ==
  [name \in DOMAIN params |->
     IF name \in Names(query) THEN params[name]
     ELSE [params[name] EXCEPT !.Required = FALSE]]

\* NewEndpointData
NewEndpointData(method, pathTemplate) ==
  [Method |-> method, PathTemplate |-> pathTemplate, PathParams |-> EmptyMap,
   QueryParams |-> EmptyMap, HeaderParams |-> EmptyMap,
   RequestBody |-> [set |-> FALSE, ContentType |-> "", Schema |-> NewSchemaStore],
   Responses |-> EmptyMap, RequestCount |-> 0]

\* NewResponseData
NewResponseData(statusCode) ==
  [StatusCode |-> statusCode, ContentType |-> "", Headers |-> EmptyMap,
   Body |-> NewSchemaStore]

\* isJWT on the tokens of the model: three base64 parts separated by dots.
isJWT(token) == token = "aaa.bbb.ccc"

\* SecurityDetector.addScheme
addScheme(schemes, key, scheme) ==
  IF key \in DOMAIN schemes
  THEN Put(schemes, key,
           [schemes[key] EXCEPT
              !.Count = @ + 1,
              !.BearerFormat = IF scheme.BearerFormat # "" /\ @ = ""
                               THEN scheme.BearerFormat ELSE @])
  ELSE Put(schemes, key, [scheme EXCEPT !.Count = 1])

\* A header value "<scheme> <token>": the scheme in lower case and the token.
AuthValues ==
  {[value |-> "Bearer aaa.bbb.ccc", scheme |-> "bearer", token |-> "aaa.bbb.ccc"],
   [value |-> "Bearer opaque", scheme |-> "bearer", token |-> "opaque"],
   [value |-> "Basic dXNlcg==", scheme |-> "basic", token |-> "dXNlcg=="]}

\* SecurityDetector.detectAuthorizationHeader
detectAuthorizationHeader(schemes, value) ==
  IF \E a \in AuthValues : a.value = value
  THEN LET a == CHOOSE a \in AuthValues : a.value = value
       IN IF a.scheme = "bearer"
          THEN addScheme(schemes, "bearerAuth",
                 [Type |-> "http", Scheme |-> "bearer", Name |-> "",
                  BearerFormat |-> IF isJWT(a.token) THEN "JWT" ELSE "",
                  Count |-> 0])
          ELSE addScheme(schemes, "basicAuth",
                 [Type |-> "http", Scheme |-> "basic", Name |-> "",
                  BearerFormat |-> "", Count |-> 0])
  ELSE schemes

RECURSIVE SecurityDetectFromHeaders(_, _)
\* SecurityDetector.DetectFromHeaders
SecurityDetectFromHeaders(schemes, headers) ==
  IF headers = <<>> THEN schemes
  ELSE LET name == Head(headers).name
           lower == LowerName(name)
       IN SecurityDetectFromHeaders(
            CASE lower = "authorization" ->
                   detectAuthorizationHeader(schemes, Head(headers).value)
              [] lower \in {"x-api-key", "api-key", "apikey"} ->
                   addScheme(schemes, "apiKeyHeader",
                     [Type |-> "apiKey", Scheme |-> "", Name |-> name,
                      BearerFormat |-> "", Count |-> 0])
              [] OTHER -> schemes,
            Tail(headers))

\* paginationParams: the pagination type of a parameter name, or "".
PaginationType(lower) ==
  CASE lower = "limit" -> "offset"
    [] lower = "page" -> "page"
    [] lower = "cursor" -> "cursor"
    [] OTHER -> ""

\* toString
toString(value) == IF value.k \in {"string", "float64", "bool"} THEN value.v ELSE ""

\* strconv.Atoi on the literals of the model: ok is false for a literal that
\* is not a decimal integer.
Atoi(s) ==
  CASE s = "1" -> [ok |-> TRUE, n |-> 1]
    [] s = "2" -> [ok |-> TRUE, n |-> 2]
    [] s = "10" -> [ok |-> TRUE, n |-> 10]
    [] s = "30" -> [ok |-> TRUE, n |-> 30]
    [] s = "100" -> [ok |-> TRUE, n |-> 100]
    [] OTHER -> [ok |-> FALSE, n |-> 0]

\* PaginationDetector.addParam
addParam(params, name, paginationType, value) ==
  LET param == IF name \in DOMAIN params THEN params[name]
               ELSE [Name |-> name, Type |-> paginationType, Examples |-> <<>>,
                     hasMin |-> FALSE, Min |-> 0, hasMax |-> FALSE, Max |-> 0]
      strValue == toString(value)
      withExample ==
        IF Len(param.Examples) < 5
           /\ ~\E i \in 1..Len(param.Examples) : param.Examples[i] = strValue
        THEN [param EXCEPT !.Examples = Append(@, strValue)]
        ELSE param
      int == Atoi(strValue)
  IN Put(params, name,
         IF ~int.ok THEN withExample
         ELSE [withExample EXCEPT
                 !.hasMin = TRUE,
                 !.Min = IF ~param.hasMin \/ int.n < @ THEN int.n ELSE @,
                 !.hasMax = TRUE,
                 !.Max = IF ~param.hasMax \/ int.n > @ THEN int.n ELSE @])

RECURSIVE DetectFromQuery(_, _)
\* PaginationDetector.DetectFromQuery
DetectFromQuery(params, query) ==
  IF query = <<>> THEN params
  ELSE DetectFromQuery(
         IF PaginationType(LowerName(Head(query).name)) # ""
         THEN addParam(params, Head(query).name,
                       PaginationType(LowerName(Head(query).name)),
                       Head(query).value)
         ELSE params,
         Tail(query))

\* RateLimitDetector.addHeader
addHeader(headers, name, value) ==
  LET header == IF name \in DOMAIN headers THEN headers[name]
                ELSE [Name |-> name, Example |-> value,
                      Type |-> IF Atoi(value).ok THEN "integer" ELSE "string",
                      Count |-> 0]
  IN Put(headers, name, [header EXCEPT !.Count = @ + 1])

RECURSIVE RateLimitDetectFromHeaders(_, _)
\* RateLimitDetector.DetectFromHeaders
RateLimitDetectFromHeaders(headers, responseHeaders) ==
  IF responseHeaders = <<>> THEN headers
  ELSE RateLimitDetectFromHeaders(
         IF LowerName(Head(responseHeaders).name)
              \in {"x-ratelimit-limit", "retry-after"}
         THEN addHeader(headers, Head(responseHeaders).name,
                        Head(responseHeaders).value)
         ELSE headers,
         Tail(responseHeaders))

\* map[string]string as the values ParamData.AddValue receives
StringValues(pairs) ==
  [i \in 1..Len(pairs) |-> Pair(pairs[i].name, Scalar("string", pairs[i].value))]

\* NewEndpointClusterer
NewEndpointClusterer ==
  [endpoints |-> EmptyMap, hosts |-> {}, schemes |-> {},
   securityDetector |-> EmptyMap, paginationDetector |-> EmptyMap,
   rateLimitDetector |-> EmptyMap]

\* AddRecord with the content type of the latest record that has one.
LatestContentType(recorded, exists, observed) ==
  IF observed # "" THEN observed
  ELSE IF exists THEN recorded ELSE "application/json"

\* EndpointClusterer.AddRecord: the content type of a request body or a
\* response is set when it is created, "application/json" if the record
\* has none, and left alone afterwards.
RecordedContentType(recorded, exists, observed) ==
  IF exists THEN recorded
  ELSE IF observed # "" THEN observed ELSE "application/json"

\* EndpointClusterer.AddRecord, the part that updates the endpoint.
AddToEndpoint(endpoint, a, inferredParams) ==
  LET counted == [endpoint EXCEPT
        !.RequestCount = @ + 1,
        !.PathParams = AddParams(@, StringValues(inferredParams), TRUE, {}),
        !.QueryParams =
           LowerRequired(AddParams(@, a.query, QueryParamStartsRequired, {}),
                         a.query),
        !.HeaderParams =
           AddParams(@, StringValues(a.headers), FALSE,
                     {n \in Names(a.headers) : isExcludedHeader(n)})]
      withBody ==
        IF a.requestBody.k = "nil" THEN counted
        ELSE [counted EXCEPT !.RequestBody =
                [set |-> TRUE,
                 ContentType |->
                   RecordedContentType(@.ContentType, @.set,
                                       a.requestContentType),
                 Schema |-> ProcessBody(@.Schema, a.requestBody)]]
      resp == [Lookup(withBody.Responses, a.status, NewResponseData(a.status))
                 EXCEPT !.ContentType =
                   RecordedContentType(@, a.status \in DOMAIN withBody.Responses,
                                       a.responseContentType)]
  IN IF a.status > 0
     THEN [withBody EXCEPT !.Responses = Put(@, a.status,
             [resp EXCEPT
                !.Body = ProcessBody(@, a.responseBody),
                !.Headers =
                   AddParams(@, StringValues(a.responseHeaders), TRUE,
                             {n \in Names(a.responseHeaders) :
                                isExcludedHeader(n)})])]
     ELSE withBody

\* EndpointClusterer.AddRecord
AddRecord(c, a) ==
  LET inferred == IF a.pathTemplate = "" THEN InferTemplate(a.path)
                  ELSE [template |-> a.pathTemplate, params |-> a.pathParams]
      key == EndpointKey(a.method, inferred.template)
      endpoint == IF key \in DOMAIN c.endpoints THEN c.endpoints[key]
                  ELSE NewEndpointData(a.method, inferred.template)
  IN [c EXCEPT
        !.hosts = IF a.host # "" THEN @ \cup {a.host} ELSE @,
        !.schemes = IF a.scheme # "" THEN @ \cup {a.scheme} ELSE @,
        !.endpoints = Put(@, key, AddToEndpoint(endpoint, a, inferred.params)),
        !.securityDetector = SecurityDetectFromHeaders(@, a.headers),
        !.paginationDetector = DetectFromQuery(@, a.query),
        !.rateLimitDetector =
           IF a.status > 0 THEN RateLimitDetectFromHeaders(@, a.responseHeaders)
           ELSE @]

\* EndpointClusterer.Finalize
ClustererFinalize(c) ==
  [c EXCEPT !.endpoints =
     [key \in DOMAIN @ |->
        [@[key] EXCEPT
           !.RequestBody = IF @.set
                           THEN [@ EXCEPT !.Schema = FinalizeOptional(@)]
                           ELSE @,
           !.Responses = [status \in DOMAIN @ |->
                            [@[status] EXCEPT !.Body = FinalizeOptional(@)]]]]]

\* EndpointClusterer.GetResult: the maps and slices of the result are new,
\* their values are the clusterer's own *EndpointData,
\* *DetectedSecurityScheme, *PaginationParam and *RateLimitHeader.
GetResult(c) ==
  [Endpoints |-> DOMAIN c.endpoints, Hosts |-> c.hosts, Schemes |-> c.schemes,
   SecuritySchemes |-> DOMAIN c.securityDetector,
   PaginationParams |-> DOMAIN c.paginationDetector,
   RateLimitHeaders |-> DOMAIN c.rateLimitDetector]

\* Engine.ProcessRecord without the status filters.
AcceptedWhateverStatus(options, record) == TRUE

\* Engine.ProcessRecord: the record passes the status filters.
Accepted(options, record) ==
  /\ record.status >= options.MinStatusCode
  /\ record.status <= options.MaxStatusCode
  /\ options.IncludeErrorResponses \/ record.status < 400

\* Engine.ProcessRecord: the arguments given to AddRecord.
AddRecordArgs(options, record) ==
  [record EXCEPT !.scheme = IF @ = "" THEN "https" ELSE @]

RECURSIVE Fold(_, _)
\* The clusterer after the AddRecord calls of a sequence, made one after
\* the other.
Fold(c, records) ==
  IF records = <<>> THEN c
  ELSE Fold(AddRecord(c, Head(records)), Tail(records))

(***************************************************************************)
(* One Engine: ProcessRecord and Finalize called by several goroutines.    *)
(***************************************************************************)
Uuid == "550e8400-e29b-41d4-a716-446655440000"

\* An IR record with nothing set, as the fields ProcessRecord extracts.
NoIRRecord ==
  [method |-> "", path |-> "", pathTemplate |-> "", pathParams |-> <<>>,
   query |-> <<>>, headers |-> <<>>, requestBody |-> Nil,
   requestContentType |-> "", status |-> 0, responseBody |-> Nil,
   responseContentType |-> "", responseHeaders |-> <<>>, host |-> "",
   scheme |-> ""]

\* The records given to ProcessRecord.
EngineRecords ==
  {[NoIRRecord EXCEPT
      !.method = "GET", !.path = "/users", !.pathTemplate = "/users",
      !.query = <<Pair("q", Str("alice@example.com")), Pair("limit", Str("10"))>>,
      !.headers = <<Pair("Authorization", "Bearer aaa.bbb.ccc"),
                    Pair("Accept", "any")>>,
      !.status = 200,
      !.responseBody = Object(<<Member(<<"a">>, Str("alice@example.com")),
                                Member(<<"b">>, Num("30"))>>),
      !.responseContentType = "application/json",
      !.responseHeaders = <<Pair("X-RateLimit-Limit", "100")>>,
      !.host = "a.example", !.scheme = "https"],
   [NoIRRecord EXCEPT
      !.method = "GET", !.path = "/users", !.pathTemplate = "/users",
      !.query = <<Pair("q", Str(Uuid))>>,
      !.headers = <<Pair("Authorization", "Bearer opaque"),
                    Pair("X-Tenant", Uuid)>>,
      !.status = 200,
      !.responseBody = Object(<<Member(<<"a">>, Str(Uuid))>>),
      !.responseContentType = "text/json",
      !.responseHeaders = <<Pair("X-RateLimit-Limit", "soon")>>],
   [NoIRRecord EXCEPT
      !.method = "GET", !.path = "/users", !.pathTemplate = "/users",
      !.query = <<Pair("q", Array(<<Str("x"), Str("y")>>)),
                  Pair("limit", Str("2"))>>,
      !.headers = <<Pair("X-Tenant", "2024-01-02")>>,
      !.status = 200,
      !.responseBody = Object(<<Member(<<"a">>, Str("Alice"))>>),
      !.host = "b.example", !.scheme = "http"],
   [NoIRRecord EXCEPT
      !.method = "get", !.path = "/users/123",
      !.headers = <<Pair("X-Api-Key", "secret")>>,
      !.status = 200,
      !.responseBody = Object(<<Member(<<"a">>, Nil),
                                Member(<<"n">>, Array(<<Str("x"), Nil>>))>>),
      !.host = "a.example"],
   [NoIRRecord EXCEPT
      !.method = "POST", !.path = "/users", !.pathTemplate = "/users",
      !.headers = <<Pair("Authorization", "Basic dXNlcg==")>>,
      !.requestBody = Object(<<Member(<<"a">>, Str("bob@example.com")),
                               Member(<<"b">>, Num("1.5"))>>),
      !.status = 404, !.host = "a.example", !.scheme = "https"],
   [NoIRRecord EXCEPT
      !.method = "POST", !.path = "/users", !.pathTemplate = "/users",
      !.requestBody = Object(<<Member(<<"b">>, Num("1"))>>),
      !.requestContentType = "text/json",
      !.status = 0,
      !.responseHeaders = <<Pair("X-RateLimit-Limit", "100")>>]}

\* DefaultEngineOptions
DefaultEngineOptions ==
  [IncludeErrorResponses |-> TRUE, MinStatusCode |-> 100,
   MaxStatusCode |-> 599, SkipEmptyBodies |-> FALSE]

\* The options given to NewEngine.
EngineOptions ==
  {DefaultEngineOptions,
   [IncludeErrorResponses |-> FALSE, MinStatusCode |-> 0,
    MaxStatusCode |-> 599, SkipEmptyBodies |-> TRUE]}

\* No result returned yet.  A result is the InferenceResult, the clusterer
\* as it was when GetResult returned, and the numbers of AddRecord calls
\* and Finalize calls made by then.
NoResult ==
  [valid |-> FALSE, result |-> GetResult(NewEndpointClusterer),
   returned |-> NewEndpointClusterer, after |-> 0, finals |-> 0]

EngineStart(options) ==
  /\ en_options = options
  /\ en_c = NewEndpointClusterer
  /\ en_mu = 0
  /\ en_pc = [p \in AProcs |-> "idle"]
  /\ en_arg = [p \in AProcs |-> NoIRRecord]
  /\ en_tmp = [p \in AProcs |-> NewEndpointClusterer]
  /\ en_done = <<>>
  /\ en_calls = 0
  /\ en_finals = 0
  /\ en_overlap = FALSE
  /\ en_result = NoResult

\* NewEngine(options)
EngineInit == \E options \in EngineOptions : EngineStart(options)

\* The engine at rest, for the specifications that do not use it.
EngineIdle == EngineStart(DefaultEngineOptions)

\* c.mu.Lock() and c.mu.RLock() grant the lock.
ClustererLockIgnored == TRUE

ClustererLockFree == en_mu = 0

\* Engine.ProcessRecord up to the call of AddRecord: a record outside the
\* status filters is dropped, the fields of any other are extracted.
EngineProcessRecord(p) ==
  /\ en_pc[p] = "idle"
  /\ en_calls < MaxEngineCalls
  /\ en_calls' = en_calls + 1
  /\ \E record \in EngineRecords :
       IF Accepted(en_options, record)
       THEN /\ en_pc' = [en_pc EXCEPT ![p] = "AddRecord"]
            /\ en_arg' = [en_arg EXCEPT ![p] = AddRecordArgs(en_options, record)]
       ELSE UNCHANGED <<en_pc, en_arg>>
  /\ UNCHANGED <<notEn, en_options, en_c, en_mu, en_tmp, en_done, en_finals,
                 en_overlap, en_result>>

\* AddRecord: c.mu.Lock(); the call works from the clusterer as it is now.
EngineAddRecordLock(p) ==
  /\ en_pc[p] = "AddRecord"
  /\ ClustererLockFree
  /\ en_mu' = p
  /\ en_tmp' = [en_tmp EXCEPT ![p] = en_c]
  /\ en_pc' = [en_pc EXCEPT ![p] = "locked"]
  /\ en_overlap' = (en_overlap \/ \E q \in AProcs \ {p} :
                                      en_pc[q] \in {"AddRecord", "locked"})
  /\ UNCHANGED <<notEn, en_options, en_c, en_arg, en_done, en_calls,
                 en_finals, en_result>>

\* AddRecord: the body, and the deferred c.mu.Unlock().
EngineAddRecord(p) ==
  /\ en_pc[p] = "locked"
  /\ en_c' = AddRecord(en_tmp[p], en_arg[p])
  /\ en_mu' = IF en_mu = p THEN 0 ELSE en_mu
  /\ en_done' = Append(en_done, en_arg[p])
  /\ en_pc' = [en_pc EXCEPT ![p] = "idle"]
  /\ en_arg' = [en_arg EXCEPT ![p] = NoIRRecord]
  /\ en_tmp' = [en_tmp EXCEPT ![p] = NewEndpointClusterer]
  /\ UNCHANGED <<notEn, en_options, en_calls, en_finals, en_overlap, en_result>>

\* Engine.Finalize: e.clusterer.Finalize(), under c.mu.Lock().
EngineFinalize(p) ==
  /\ en_pc[p] = "idle"
  /\ en_finals < MaxFinalizes
  /\ ClustererLockFree
  /\ en_finals' = en_finals + 1
  /\ en_c' = ClustererFinalize(en_c)
  /\ en_pc' = [en_pc EXCEPT ![p] = "GetResult"]
  /\ UNCHANGED <<notEn, en_options, en_mu, en_arg, en_tmp, en_done, en_calls,
                 en_overlap, en_result>>

\* Engine.Finalize: return e.clusterer.GetResult(), under c.mu.RLock().
EngineGetResult(p) ==
  /\ en_pc[p] = "GetResult"
  /\ ClustererLockFree
  /\ en_result' = [valid |-> TRUE, result |-> GetResult(en_c),
                   returned |-> en_c, after |-> Len(en_done),
                   finals |-> en_finals]
  /\ en_pc' = [en_pc EXCEPT ![p] = "idle"]
  /\ UNCHANGED <<notEn, en_options, en_c, en_mu, en_arg, en_tmp, en_done,
                 en_calls, en_finals, en_overlap>>

EngineNext ==
  \E p \in AProcs :
     \/ EngineProcessRecord(p)
     \/ EngineAddRecordLock(p)
     \/ EngineAddRecord(p)
     \/ EngineFinalize(p)
     \/ EngineGetResult(p)

(***************************************************************************)
(* PathInferrer (src/pkg/inference/path.go).  A path is the sequence of    *)
(* its segments, strings.Split(strings.Trim(path, "/"), "/"); a parameter  *)
(* name is a base name and the number appended to it (0 for none); a       *)
(* template is a sequence of literal segments and placeholders.            *)
(***************************************************************************)
\* The segments the paths of the model are made of.
PathSegments == {"users", "v1", "2", "3"}

\* classifySegment on the segments of the model: versionPattern keeps v1
\* literal, numericPattern makes 2 and 3 numeric IDs.
classifySegment(segment) ==
  CASE segment \in {"2", "3"} -> "SegmentNumericID"
    [] OTHER -> "SegmentLiteral"

\* singularize on the segments of the model.
singularize(word) ==
  CASE word = "users" -> "user"
    [] OTHER -> word

\* The name inferParamName derives from the previous segment:
\* p.resourceNames[prevSegment], or singularize(prevSegment) + "Id".
NameAfter(prevSegment) ==
  CASE prevSegment = "users" -> "userId"
    [] singularize(prevSegment) = "v1" -> "v1Id"
    [] singularize(prevSegment) = "2" -> "2Id"
    [] singularize(prevSegment) = "3" -> "3Id"
    [] OTHER -> "Id"

ParamName(base, n) == [base |-> base, n |-> n]

\* counts[name], zero for a name that was never counted
CountOf(counts, name) == IF name \in DOMAIN counts THEN counts[name] ELSE 0

\* paramName + strconv.Itoa(counts[paramName]+1) when the name was used,
\* paramName otherwise
Suffixed(counts, base) ==
  IF CountOf(counts, ParamName(base, 0)) > 0
  THEN ParamName(base, CountOf(counts, ParamName(base, 0)) + 1)
  ELSE ParamName(base, 0)

\* PathInferrer.inferParamName
inferParamName(segments, idx, segType, counts) ==
  IF idx > 1 THEN Suffixed(counts, NameAfter(segments[idx - 1]))
  ELSE CASE segType = "SegmentUUID" -> Suffixed(counts, "uuid")
         [] segType = "SegmentDate" -> Suffixed(counts, "date")
         [] OTHER -> Suffixed(counts, "id")

Literal(segment) == [param |-> FALSE, text |-> segment, name |-> ParamName("", 0)]

Placeholder(name) == [param |-> TRUE, text |-> "", name |-> name]

RECURSIVE InferSegments(_, _, _)
\* PathInferrer.InferTemplate: the loop over the segments, from segment i
\* on; acc holds result, params and paramCounts.
InferSegments(segments, i, acc) ==
  IF i > Len(segments) THEN acc
  ELSE LET segment == segments[i]
           segType == classifySegment(segment)
           paramName == inferParamName(segments, i, segType, acc.paramCounts)
       IN InferSegments(segments, i + 1,
            IF segment = "" \/ segType = "SegmentLiteral"
            THEN [acc EXCEPT !.result = Append(@, Literal(segment))]
            ELSE [result |-> Append(acc.result, Placeholder(paramName)),
                  params |-> Put(acc.params, paramName, segment),
                  paramCounts |-> Put(acc.paramCounts, paramName,
                                      CountOf(acc.paramCounts, paramName) + 1)])

\* PathInferrer.InferTemplate: the template and the parameter values.
PathInferTemplate(segments) ==
  IF segments = <<"">>
  THEN [template |-> <<>>, params |-> EmptyMap]
  ELSE LET acc == InferSegments(segments, 1,
                    [result |-> <<>>, params |-> EmptyMap,
                     paramCounts |-> EmptyMap])
       IN [template |-> acc.result, params |-> acc.params]

\* The path a template stands for once every placeholder is replaced by
\* the value the parameter map holds for its name.
Substitute(template, params) ==
  IF template = <<>> THEN <<"">>
  ELSE [i \in 1..Len(template) |->
          IF template[i].param THEN params[template[i].name]
          ELSE template[i].text]

\* The paths of at most n segments.
PathsUpTo(n) ==
  {<<"">>} \cup UNION {[1..k -> PathSegments] : k \in 1..n}

NoInference == [template |-> <<>>, params |-> EmptyMap]

PathStart(path) ==
  /\ pi_path = path
  /\ pi_pc = "path"
  /\ pi_first = NoInference
  /\ pi_second = NoInference

\* NewPathInferrer, and a path to infer the template of.
PathInit == \E path \in PathsUpTo(MaxSegments) : PathStart(path)

\* The inferrer at rest, for the specifications that do not use it.
PathIdle == PathStart(<<"">>)

\* p.InferTemplate(path)
PathInfer ==
  /\ pi_pc = "path"
  /\ pi_first' = PathInferTemplate(pi_path)
  /\ pi_pc' = "inferred"
  /\ UNCHANGED <<notPi, pi_path, pi_second>>

\* p.InferTemplate on the path made of the template and the parameters
\* returned first.
PathInferAgain ==
  /\ pi_pc = "inferred"
  /\ pi_second' = PathInferTemplate(Substitute(pi_first.template, pi_first.params))
  /\ pi_pc' = "again"
  /\ UNCHANGED <<notPi, pi_path, pi_first>>

PathNext == PathInfer \/ PathInferAgain

(***************************************************************************)
(* The OpenAPI generator (src/pkg/openapi/generator.go) applied to the     *)
(* result of the inference engine.  A document is a record; a list whose   *)
(* order is part of the document (servers, security, parameters, required) *)
(* is a sequence.                                                          *)
(***************************************************************************)
\* The parameter and header names of the model, in byte order.
NameOrder ==
  <<"Authorization", "X-Api-Key", "X-RateLimit-Limit", "X-Tenant",
    "limit", "q", "userId">>

\* The security scheme keys, in byte order.
SecurityKeyOrder == <<"apiKeyHeader", "basicAuth", "bearerAuth">>

\* sort.Strings on a set of strings of the model, listed in `order`.
SortedIn(order, S) == SelectSeq(order, LAMBDA x : x \in S)

\* paramInOrder
paramInOrder(in) ==
  CASE in = "path" -> 0
    [] in = "query" -> 1
    [] in = "header" -> 2
    [] in = "cookie" -> 3
    [] OTHER -> 4

\* generateOperationID on the methods and templates of the model.
generateOperationID(method, path) ==
  CASE UpperMethod(method) = "GET" /\ path = "/users" -> "getUsers"
    [] UpperMethod(method) = "GET" /\ path = "/users/{userId}" -> "getUsersByUserId"
    [] UpperMethod(method) = "POST" /\ path = "/users" -> "postUsers"
    [] OTHER -> "other"

\* Generator.createParameter
createParameter(param, in, required) ==
  [Name |-> param.Name, In |-> in, Required |-> required,
   Type |-> param.Type, Format |-> param.Format,
   Example |-> SubSeq(param.Examples, 1, 1)]

\* Generator.createOperation: the parameters, sorted by location and name.
SortedParameters(endpoint) ==
  LET of(params, in) ==
        LET names == SortedIn(NameOrder, DOMAIN params)
        IN [i \in 1..Len(names) |->
              createParameter(params[names[i]], in,
                              IF in = "path" THEN TRUE
                              ELSE params[names[i]].Required)]
  IN of(endpoint.PathParams, "path") \o of(endpoint.QueryParams, "query")
       \o of(endpoint.HeaderParams, "header")

\* A generator that emits nullability and examples whatever the version.
convertSchemaNodeAnyVersion(tree, version) ==
  [node \in DOMAIN tree |->
     [Type |-> IF tree[node].Nullable
               THEN <<tree[node].Type, "null">> ELSE <<tree[node].Type>>,
      Format |-> tree[node].Format,
      Examples |-> tree[node].Examples,
      Properties |-> IF tree[node].Type = "object" THEN tree[node].Properties
                     ELSE {},
      Required |-> IF tree[node].Type = "object" /\ tree[node].Properties # {}
                   THEN tree[node].Required ELSE <<>>]]

\* Generator.convertSchemaNode, for every node of a schema tree.
convertSchemaNode(tree, version) ==
  [node \in DOMAIN tree |->
     [Type |-> IF tree[node].Nullable /\ version = "3.1.0"
               THEN <<tree[node].Type, "null">> ELSE <<tree[node].Type>>,
      Format |-> tree[node].Format,
      Examples |-> IF version = "3.1.0" THEN tree[node].Examples ELSE <<>>,
      Properties |-> IF tree[node].Type = "object" THEN tree[node].Properties
                     ELSE {},
      Required |-> IF tree[node].Type = "object" /\ tree[node].Properties # {}
                   THEN tree[node].Required ELSE <<>>]]

NoContent(options) ==
  [set |-> FALSE, ContentType |-> "",
   Schema |-> convertSchemaNode(BuildSchemaTree(NewSchemaStore), options.Version)]

\* Generator.createRequestBody
createRequestBody(body, options) ==
  [set |-> TRUE,
   ContentType |-> IF body.ContentType = "" THEN "application/json"
                   ELSE body.ContentType,
   Schema |-> convertSchemaNode(BuildSchemaTree(body.Schema), options.Version)]

\* Generator.createResponse
createResponse(respData, options) ==
  [Description |-> respData.StatusCode,
   Headers |-> [name \in DOMAIN respData.Headers |-> respData.Headers[name].Type],
   Content |->
     IF DOMAIN respData.Body.Examples # {} \/ DOMAIN respData.Body.Types # {}
     THEN [set |-> TRUE,
           ContentType |-> IF respData.ContentType = "" THEN "application/json"
                           ELSE respData.ContentType,
           Schema |-> convertSchemaNode(BuildSchemaTree(respData.Body),
                                        options.Version)]
     ELSE NoContent(options)]

\* Generator.createOperation
createOperation(endpoint, securityKeys, options) ==
  [Summary |-> <<endpoint.Method, endpoint.PathTemplate>>,
   OperationID |-> generateOperationID(endpoint.Method, endpoint.PathTemplate),
   Security |-> securityKeys,
   Parameters |-> SortedParameters(endpoint),
   RequestBody |->
     IF endpoint.RequestBody.set
        /\ DOMAIN endpoint.RequestBody.Schema.Examples # {}
     THEN createRequestBody(endpoint.RequestBody, options)
     ELSE NoContent(options),
   Responses |->
     [status \in DOMAIN endpoint.Responses |->
        createResponse(endpoint.Responses[status], options)]]

\* Generator.Generate: the servers, from the options or from the observed
\* hosts and schemes in the order of the result's lists.
GenerateServers(options, hosts, schemes) ==
  IF Len(options.Servers) > 0
  THEN [i \in 1..Len(options.Servers) |->
          [URL |-> options.Servers[i], scheme |-> "", host |-> ""]]
  ELSE IF Len(hosts) > 0 /\ Len(schemes) > 0
  THEN [k \in 1..(Len(hosts) * Len(schemes)) |->
          [URL |-> "",
           scheme |-> schemes[((k - 1) % Len(schemes)) + 1],
           host |-> hosts[((k - 1) \div Len(schemes)) + 1]]]
  ELSE <<>>

\* Generator.Generate: the security schemes of the components.
GenerateSecuritySchemes(detected) ==
  [key \in DOMAIN detected |->
     [Type |-> detected[key].Type,
      Scheme |-> IF detected[key].Type = "http" THEN detected[key].Scheme ELSE "",
      BearerFormat |-> IF detected[key].Type = "http"
                       THEN detected[key].BearerFormat ELSE "",
      Name |-> IF detected[key].Type = "apiKey" THEN detected[key].Name ELSE "",
      In |-> IF detected[key].Type = "apiKey" THEN "header" ELSE ""]]

\* The methods a PathItem has an operation field for.
PathItemMethods ==
  {"GET", "POST", "PUT", "DELETE", "PATCH", "HEAD", "OPTIONS", "TRACE"}

\* Generator.Generate on the result GetResult makes of clusterer c, whose
\* Hosts and Schemes lists are in the order given.
Generate(options, c, hosts, schemes) ==
  LET securityKeys == SortedIn(SecurityKeyOrder, GetResult(c).SecuritySchemes)
      keys == {key \in GetResult(c).Endpoints : key[1] \in PathItemMethods}
  IN [OpenAPI |-> options.Version,
      Title |-> options.Title,
      Servers |-> GenerateServers(options, hosts, schemes),
      SecuritySchemes |-> GenerateSecuritySchemes(c.securityDetector),
      Paths |-> [key \in keys |->
                   createOperation(c.endpoints[key], securityKeys, options)]]

\* DefaultGeneratorOptions
DefaultGeneratorOptions ==
  [Version |-> "3.1.0", Title |-> "Generated API", Servers |-> <<>>]

\* The options given to NewGenerator.
GeneratorOptions ==
  {DefaultGeneratorOptions,
   [Version |-> "3.0.3", Title |-> "Users", Servers |-> <<"https://api.example.com">>],
   [Version |-> "3.2.0", Title |-> "Users", Servers |-> <<>>]}

\* InferFromRecords: NewEngine(DefaultEngineOptions()), ProcessRecords,
\* Finalize, up to the clusterer GetResult reads.
InferFromRecords(records) ==
  ClustererFinalize(
    Fold(NewEndpointClusterer,
         SelectSeq([i \in 1..Len(records) |->
                      AddRecordArgs(DefaultEngineOptions, records[i])],
                   LAMBDA a : Accepted(DefaultEngineOptions, a))))

\* The lists GetResult can make of a map's keys: for host := range c.hosts
\* appends them in the order of the iteration, which Go leaves unspecified.
RangeOrders(S) ==
  {order \in [1..Cardinality(S) -> S] : \A x \in S : \E i \in DOMAIN order : order[i] = x}

GeneratorStart(options, records) ==
  /\ gn_options = options
  /\ gn_records = records
  /\ gn_c = NewEndpointClusterer
  /\ gn_inferred = FALSE
  /\ gn_docs = <<>>

\* A generator and the records of an input file.
GeneratorInit ==
  \E options \in GeneratorOptions :
     \E records \in UNION {[1..n -> EngineRecords] : n \in 0..MaxInputRecords} :
        GeneratorStart(options, records)

\* The generator at rest, for the specifications that do not use it.
GeneratorIdle == GeneratorStart(DefaultGeneratorOptions, <<>>)

\* One run of inference and generation on the input.
GeneratorRun ==
  /\ Len(gn_docs) < MaxRuns
  /\ gn_c' = InferFromRecords(gn_records)
  /\ gn_inferred' = TRUE
  /\ \E hosts \in RangeOrders(gn_c'.hosts) :
       \E schemes \in RangeOrders(gn_c'.schemes) :
          gn_docs' = Append(gn_docs, Generate(gn_options, gn_c', hosts, schemes))
  /\ UNCHANGED <<notGn, gn_options, gn_records>>

GeneratorNext == GeneratorRun

(***************************************************************************)
(* MergeSchemas (src/pkg/inference/schema.go).  A *SchemaNode is a         *)
(* sequence of no node (nil) or one node; a node is a record whose         *)
(* Properties is the map from property names to nodes and whose Items is   *)
(* a *SchemaNode.  The nodes are those BuildSchemaTree makes, which never  *)
(* sets Enum.                                                              *)
(***************************************************************************)
\* formatExample: the key under which mergeExamples remembers an example.
\* A float64 val becomes "n:" and string(rune(int(val*1000000))), which is
\* the replacement character for every code point above U+10FFFF.
formatExample(v) ==
  CASE v.k = "string" -> <<"s:", v.v>>
    [] v.k = "float64" ->
         <<"n:", IF v.v \in {"1"} THEN "U+F4240" ELSE "U+FFFD">>
    [] v.k = "bool" -> <<"b:", v.v>>
    [] v.k = "nil" -> <<"null", "">>
    [] OTHER -> <<"?", "">>

RECURSIVE addExamples(_, _, _, _)
\* mergeExamples: addExample on each example of a list.
addExamples(result, seen, list, max) ==
  IF list = <<>> THEN [result |-> result, seen |-> seen]
  ELSE IF Len(result) >= max \/ formatExample(Head(list)) \in seen
  THEN addExamples(result, seen, Tail(list), max)
  ELSE addExamples(Append(result, Head(list)),
                   seen \cup {formatExample(Head(list))}, Tail(list), max)

\* mergeExamples
mergeExamples(a, b, max) ==
  LET first == addExamples(<<>>, {}, a, max)
  IN addExamples(first.result, first.seen, b, max).result

\* a.Properties[name], nil when the map has no such key.
Property(node, name) ==
  IF name \in DOMAIN node.Properties THEN <<node.Properties[name]>> ELSE <<>>

\* MergeSchemas: merge formats (prefer non-empty).
MergeFormat(a, b) == IF a.Format # "" THEN a.Format ELSE b.Format

RECURSIVE MergeSchemas(_, _)
\* MergeSchemas
MergeSchemas(a, b) ==
  IF a = <<>> THEN b
  ELSE IF b = <<>> THEN a
  ELSE LET x == a[1]
           y == b[1]
           isArray == x.Type = "array" \/ y.Type = "array"
           isObject == x.Type = "object" \/ y.Type = "object"
           propNames == IF isObject
                        THEN DOMAIN x.Properties \cup DOMAIN y.Properties
                        ELSE {}
       IN <<[Type |-> IF isObject THEN "object"
                      ELSE IF isArray THEN "array"
                      ELSE mergeTypes(x.Type, y.Type),
             Nullable |-> x.Nullable \/ y.Nullable,
             Format |-> MergeFormat(x, y),
             Examples |-> mergeExamples(x.Examples, y.Examples, 5),
             Items |-> IF isArray THEN MergeSchemas(x.Items, y.Items) ELSE <<>>,
             Properties |->
               [name \in propNames |->
                  MergeSchemas(Property(x, name), Property(y, name))[1]],
             Required |->
               IF isObject
               THEN SortStrings(SelectSeq(y.Required,
                                 LAMBDA r : r \in Range(x.Required)))
               ELSE <<>>]>>

\* createLeafSchema: a node without properties and items.
LeafNode(type, format, nullable, examples) ==
  [Type |-> type, Format |-> format, Nullable |-> nullable,
   Examples |-> examples, Items |-> <<>>, Properties |-> EmptyMap,
   Required |-> <<>>]

\* convertToSchemaNode: an object node.
ObjectNode(properties, required) ==
  [Type |-> "object", Format |-> "", Nullable |-> FALSE, Examples |-> <<>>,
   Items |-> <<>>, Properties |-> properties, Required |-> required]

\* convertToSchemaNode: an array node.
ArrayNode(items) ==
  [Type |-> "array", Format |-> "", Nullable |-> FALSE, Examples |-> <<>>,
   Items |-> items, Properties |-> EmptyMap, Required |-> <<>>]

\* The property names of the model.
AllPropNames == << <<"a">>, <<"b">>, <<"t">> >>

MergePropNames ==
  {AllPropNames[i] : i \in 1..(IF MaxProps < 3 THEN MaxProps ELSE 3)}

\* The leaf nodes that are properties and items in the model.
InnerLeaves ==
  {LeafNode("string", "email", FALSE, <<Scalar("string", "alice@example.com")>>),
   LeafNode("string", "uuid", TRUE,
            <<Scalar("string", "550e8400-e29b-41d4-a716-446655440000")>>),
   LeafNode("integer", "", FALSE, <<Scalar("float64", "2"), Scalar("float64", "30")>>)}

\* The leaf nodes of the model.
LeafNodes ==
  InnerLeaves \cup
  {LeafNode("string", "", FALSE, <<Scalar("string", "Alice")>>),
   LeafNode("string", "email", TRUE, <<Scalar("string", "bob@example.com")>>),
   LeafNode("number", "", FALSE, <<Scalar("float64", "1.5"), Scalar("float64", "1")>>),
   LeafNode("number", "", TRUE, <<Scalar("float64", "1.5")>>),
   LeafNode("boolean", "", FALSE, <<Scalar("bool", "true")>>),
   LeafNode("integer", "", TRUE, <<Scalar("float64", "1")>>)}

\* The sorted lists of some of the names of a set.
SortedSublists(names) ==
  {SortStrings(SeqOfSet(S)) : S \in SUBSET names}

\* The object nodes whose properties are leaves.
ObjectNodes ==
  UNION {UNION {{ObjectNode(properties, required) :
                   required \in SortedSublists(names)} :
                  properties \in [names -> InnerLeaves]} :
           names \in SUBSET MergePropNames}

\* The array nodes: without items, and with a leaf or a one-property object
\* as items.
ArrayNodes ==
  {ArrayNode(<<>>)}
    \cup {ArrayNode(<<leaf>>) : leaf \in InnerLeaves}
    \cup {ArrayNode(<<object>>) :
            object \in {o \in ObjectNodes : Cardinality(DOMAIN o.Properties) <= 1}}

\* The schema nodes given to MergeSchemas.
SchemaNodes == LeafNodes \cup ObjectNodes \cup ArrayNodes

NoNode == <<>>

MergeStart(a, b) ==
  /\ mg_a = a
  /\ mg_b = b
  /\ mg_pc = "nodes"
  /\ mg_ab = NoNode
  /\ mg_ba = NoNode
  /\ mg_aa = NoNode

\* Two schema nodes.
MergeInit == \E a \in SchemaNodes : \E b \in SchemaNodes : MergeStart(a, b)

\* The merge at rest, for the specifications that do not use it.
MergeIdle == MergeStart(LeafNode("string", "", FALSE, <<>>),
                        LeafNode("string", "", FALSE, <<>>))

\* MergeSchemas(a, b) and MergeSchemas(b, a)
MergeBothWays ==
  /\ mg_pc = "nodes"
  /\ mg_ab' = MergeSchemas(<<mg_a>>, <<mg_b>>)
  /\ mg_ba' = MergeSchemas(<<mg_b>>, <<mg_a>>)
  /\ mg_pc' = "merged"
  /\ UNCHANGED <<notMg, mg_a, mg_b, mg_aa>>

\* MergeSchemas(a, a)
MergeWithItself ==
  /\ mg_pc = "merged"
  /\ mg_aa' = MergeSchemas(<<mg_a>>, <<mg_a>>)
  /\ mg_pc' = "done"
  /\ UNCHANGED <<notMg, mg_a, mg_b, mg_ab, mg_ba>>

MergeNext == MergeBothWays \/ MergeWithItself

(***************************************************************************)
(* Provider.NewWriter and Provider.NewReader with their context            *)
(* (src/pkg/ir/provider_ndjson.go, storage.go, provider_channel.go,        *)
(* writer.go).  The object-store provider hands the context to the         *)
(* omnistorage backend it was given; whether that backend looks at the     *)
(* context before it opens the object is the backend's choice.             *)
(***************************************************************************)
\* What is at the path: nothing, an empty file, NDJSON text or a gzip
\* stream.
PathContents == {"missing", "empty", "ndjson", "gzip"}

\* WithGzipLevel: the option is absent, a level gzip accepts, or one it
\* rejects.
GzipLevels == {"default", "valid", "invalid"}

NoError == [kind |-> "nil", wrapped |-> FALSE]

\* The outcome of a constructor: its error, whether it returned a writer or
\* reader, whether it created (truncated) the file or object, whether it
\* left a file or stream open, and what is at the path afterwards.
Outcome(kind, wrapped, returned, created, opened, file) ==
  [err |-> [kind |-> kind, wrapped |-> wrapped], returned |-> returned,
   created |-> created, opened |-> opened, file |-> file]

\* NDJSONProvider.NewWriter
NDJSONNewWriter(ctxErr, file) ==
  IF ctxErr THEN Outcome("ctx", FALSE, FALSE, FALSE, FALSE, file)
  ELSE Outcome("nil", FALSE, TRUE, TRUE, TRUE, "empty")

\* NDJSONProvider.NewReader
NDJSONNewReader(ctxErr, file) ==
  IF ctxErr THEN Outcome("ctx", FALSE, FALSE, FALSE, FALSE, file)
  ELSE IF file = "missing" THEN Outcome("open", TRUE, FALSE, FALSE, FALSE, file)
  ELSE Outcome("nil", FALSE, TRUE, FALSE, TRUE, file)

\* GzipNDJSONProvider.NewWriter
GzipNewWriter(ctxErr, file, level) ==
  IF ctxErr THEN Outcome("ctx", FALSE, FALSE, FALSE, FALSE, file)
  ELSE IF level = "invalid"
  THEN Outcome("gzip", TRUE, FALSE, TRUE, FALSE, "empty")
  ELSE Outcome("nil", FALSE, TRUE, TRUE, TRUE, "empty")

\* GzipNDJSONProvider.NewReader
GzipNewReader(ctxErr, file) ==
  IF ctxErr THEN Outcome("ctx", FALSE, FALSE, FALSE, FALSE, file)
  ELSE IF file = "missing" THEN Outcome("open", TRUE, FALSE, FALSE, FALSE, file)
  ELSE IF file # "gzip" THEN Outcome("gzip", TRUE, FALSE, FALSE, FALSE, file)
  ELSE Outcome("nil", FALSE, TRUE, FALSE, TRUE, file)

\* ChannelProvider.NewWriter and ChannelProvider.NewReader
ChannelNew(ctxErr, file) ==
  IF ctxErr THEN Outcome("ctx", FALSE, FALSE, FALSE, FALSE, file)
  ELSE Outcome("nil", FALSE, TRUE, FALSE, FALSE, file)

\* StorageProvider.NewWriter: NewStorageWriter
StorageNewWriter(ctxErr, file, gz, backendChecks) ==
  IF ctxErr /\ backendChecks
  THEN Outcome("ctx", TRUE, FALSE, FALSE, FALSE, file)
  ELSE Outcome("nil", FALSE, TRUE, TRUE, TRUE, "empty")

\* StorageProvider.NewReader: NewStorageReader
StorageNewReader(ctxErr, file, gz, backendChecks) ==
  IF ctxErr /\ backendChecks
  THEN Outcome("ctx", TRUE, FALSE, FALSE, FALSE, file)
  ELSE IF file = "missing" THEN Outcome("open", TRUE, FALSE, FALSE, FALSE, file)
  ELSE IF gz /\ file # "gzip" THEN Outcome("gzip", TRUE, FALSE, FALSE, FALSE, file)
  ELSE Outcome("nil", FALSE, TRUE, FALSE, TRUE, file)

\* Provider.NewWriter
NewWriter(kind, ctxErr, file, level, backendChecks) ==
  CASE kind = "ndjson" -> NDJSONNewWriter(ctxErr, file)
    [] kind = "gzip" -> GzipNewWriter(ctxErr, file, level)
    [] kind = "channel" -> ChannelNew(ctxErr, file)
    [] OTHER -> StorageNewWriter(ctxErr, file, kind = "storage.gz", backendChecks)

\* Provider.NewReader
NewReader(kind, ctxErr, file, backendChecks) ==
  CASE kind = "ndjson" -> NDJSONNewReader(ctxErr, file)
    [] kind = "gzip" -> GzipNewReader(ctxErr, file)
    [] kind = "channel" -> ChannelNew(ctxErr, file)
    [] OTHER -> StorageNewReader(ctxErr, file, kind = "storage.gz", backendChecks)

ContextStart(kind, ctxErr, file, level, backendChecks) ==
  /\ cx_kind = kind
  /\ cx_ctxErr = ctxErr
  /\ cx_file = file
  /\ cx_level = level
  /\ cx_backendChecks = backendChecks
  /\ cx_calls = <<>>

\* A provider, a context that is cancelled or not, and a path.
ContextInit ==
  \E kind \in ProviderKinds : \E ctxErr \in BOOLEAN : \E file \in PathContents :
     \E level \in GzipLevels : \E backendChecks \in BOOLEAN :
        ContextStart(kind, ctxErr, file, level, backendChecks)

\* The constructors at rest, for the specifications that do not use them.
ContextIdle == ContextStart("channel", FALSE, "missing", "default", TRUE)

\* provider.NewWriter(ctx, path)
NewWriterCall ==
  /\ Len(cx_calls) < MaxNewCalls
  /\ LET out == NewWriter(cx_kind, cx_ctxErr, cx_file, cx_level, cx_backendChecks)
     IN /\ cx_calls' = Append(cx_calls, [op |-> "NewWriter", before |-> cx_file,
                                        out |-> out])
        /\ cx_file' = out.file
  /\ UNCHANGED <<notCx, cx_kind, cx_ctxErr, cx_level, cx_backendChecks>>

\* provider.NewReader(ctx, path)
NewReaderCall ==
  /\ Len(cx_calls) < MaxNewCalls
  /\ LET out == NewReader(cx_kind, cx_ctxErr, cx_file, cx_backendChecks)
     IN /\ cx_calls' = Append(cx_calls, [op |-> "NewReader", before |-> cx_file,
                                        out |-> out])
        /\ cx_file' = out.file
  /\ UNCHANGED <<notCx, cx_kind, cx_ctxErr, cx_level, cx_backendChecks>>

ContextNext == NewWriterCall \/ NewReaderCall

(***************************************************************************)
(* NDJSONReader (src/unnamed/part_008) on a stream of any lines.           *)
(***************************************************************************)
\* What a Read call returns: a record, the error of a line that does not
\* decode with its line number, the scanner's error, or io.EOF.
ReadResult(kind, rec, line) == [kind |-> kind, rec |-> rec, line |-> line]

RECURSIVE NDJSONRead(_, _, _)
\* NDJSONReader.Read: for r.scanner.Scan() { r.lineNum++ ... }, then
\* r.scanner.Err(), then io.EOF.
NDJSONRead(rest, lineNum, maxTokenSize) ==
  IF rest = <<>>
  THEN [res |-> ReadResult("eof", NoRecord, 0), rest |-> rest,
        lineNum |-> lineNum, scanErr |-> FALSE]
  ELSE LET sc == ScanLine(rest, maxTokenSize)
       IN IF sc.tooLong
          THEN [res |-> ReadResult("scan", NoRecord, 0), rest |-> rest,
                lineNum |-> lineNum, scanErr |-> TRUE]
          ELSE IF TrimSpace(sc.line) = <<>>
          THEN NDJSONRead(sc.after, lineNum + 1, maxTokenSize)
          ELSE LET d == Unmarshal(TrimSpace(sc.line))
               IN [res |-> IF d.ok THEN ReadResult("rec", d.rec, 0)
                           ELSE ReadResult("decode", NoRecord, lineNum + 1),
                   rest |-> sc.after, lineNum |-> lineNum + 1,
                   scanErr |-> FALSE]

\* The lines of the model's streams: two records, an empty line, a line of
\* white space, a record between white space, a line that is not JSON, a
\* record whose line is one byte short of the scanner's limit and one whose
\* line reaches it.
StreamLines ==
  {Marshal(BaseRecord),
   Marshal([BaseRecord EXCEPT !.method = <<"P", "O", "S", "T">>]),
   <<>>,
   <<Tok(" ", 1), Tok("TAB", 1)>>,
   <<Tok(" ", 1)>> \o Marshal([BaseRecord EXCEPT !.status = 404]) \o <<Tok("CR", 1)>>,
   <<Tok("{", 1), Tok("x", 1)>>,
   Marshal([BaseRecord EXCEPT !.body = BoundaryFill - 1]),
   Marshal([BaseRecord EXCEPT !.body = BoundaryFill])}

RECURSIVE JoinLines(_, _)
\* The bytes of a stream of lines; the last line ends with a newline or
\* not.
JoinLines(lines, finalNewline) ==
  IF lines = <<>> THEN <<>>
  ELSE IF Len(lines) = 1
  THEN lines[1] \o (IF finalNewline THEN <<Tok("LF", 1)>> ELSE <<>>)
  ELSE lines[1] \o <<Tok("LF", 1)>> \o JoinLines(Tail(lines), finalNewline)

ReaderStart(lines, finalNewline) ==
  /\ rd_lines = lines
  /\ rd_rest = JoinLines(lines, finalNewline)
  /\ rd_lineNum = 0
  /\ rd_scanErr = FALSE
  /\ rd_out = <<>>

\* NewNDJSONReader on a stream of up to MaxLines lines.
ReaderInit ==
  \E lines \in UNION {[1..n -> StreamLines] : n \in 0..MaxLines} :
     \E finalNewline \in BOOLEAN :
        /\ (lines # <<>> /\ lines[Len(lines)] = <<>>) => finalNewline
        /\ ReaderStart(lines, finalNewline)

\* The reader at rest, for the specifications that do not use it.
ReaderIdle == ReaderStart(<<>>, FALSE)

\* NDJSONReader.Read: after an error of the scanner, Scan returns false and
\* Err returns that error again.
ReaderRead ==
  /\ Len(rd_out) < MaxReads
  /\ IF rd_scanErr
     THEN /\ rd_out' = Append(rd_out, ReadResult("scan", NoRecord, 0))
          /\ UNCHANGED <<rd_rest, rd_lineNum, rd_scanErr>>
     ELSE LET r == NDJSONRead(rd_rest, rd_lineNum, ScannerMaxTokenSize)
          IN /\ rd_out' = Append(rd_out, r.res)
             /\ rd_rest' = r.rest
             /\ rd_lineNum' = r.lineNum
             /\ rd_scanErr' = r.scanErr
  /\ UNCHANGED <<notRd, rd_lines>>

ReaderNext == ReaderRead

(***************************************************************************)
(* BuildSchemaTree on a store that another goroutine mutates.  store.mu is *)
(* a sync.RWMutex: a goroutine waiting in or holding mu.Lock() keeps new   *)
(* readers out, and Lock() waits for the read locks held to be released.   *)
(***************************************************************************)
\* One convertToSchemaNode call: its node, the children it has not visited
\* yet, and whether it has passed store.mu.RLock().
Frame(node, todo, locked) == [node |-> node, todo |-> todo, locked |-> locked]

\* The calls that mutate the store.
MutatorOps ==
  {[name |-> "AddObservation", path |-> <<>>, value |-> Nil],
   [name |-> "FinalizeOptional", path |-> <<>>, value |-> Nil],
   [name |-> "AddValue", path |-> <<"a">>, value |-> Scalar("string", "Alice")],
   [name |-> "AddValue", path |-> <<"z">>, value |-> Nil]}

NoOp == [name |-> "none", path |-> <<>>, value |-> Nil]

\* The body of the mutating call, run under mu.Lock().
ApplyOp(store, op) ==
  CASE op.name = "AddObservation" -> AddObservation(store)
    [] op.name = "FinalizeOptional" -> FinalizeOptional(store)
    [] op.name = "AddValue" -> AddValue(store, op.path, op.value)
    [] OTHER -> store

BuildStart(store) ==
  /\ bt_store = store
  /\ bt_snap = NewSchemaStore
  /\ bt_pc = "start"
  /\ bt_stack = <<>>
  /\ bt_readers = 0
  /\ bt_writer = "idle"
  /\ bt_op = NoOp
  /\ bt_ops = 0

\* A store fed with one body, then BuildSchemaTree(store) is called.
BuildInit ==
  \E body \in TestBodies : BuildStart(ProcessBody(NewSchemaStore, body))

\* The component at rest, for the specifications that do not use it.
BuildIdle == BuildStart(NewSchemaStore)

\* store.mu.RLock() returns at once: no goroutine waits in or holds Lock().
StoreRLockFree == bt_writer = "idle"

\* store.mu.Lock() returns: no read lock is held.
StoreLockFree == bt_readers = 0

\* BuildSchemaTree: an empty store gives the empty object schema.
BuildEmpty ==
  /\ bt_pc = "start"
  /\ DOMAIN bt_store.Examples = {} /\ DOMAIN bt_store.Nullable = {}
  /\ bt_pc' = "done"
  /\ UNCHANGED <<notBt, bt_store, bt_snap, bt_stack, bt_readers, bt_writer,
                 bt_op, bt_ops>>

\* BuildSchemaTree: store.GetPaths() under its own read lock, insertPath for
\* every path, then convertToSchemaNode(root, store, true) is called.
BuildGetPaths ==
  /\ bt_pc = "start"
  /\ ~(DOMAIN bt_store.Examples = {} /\ DOMAIN bt_store.Nullable = {})
  /\ StoreRLockFree
  /\ bt_snap' = bt_store
  /\ bt_stack' = <<Frame(<<>>, {}, FALSE)>>
  /\ bt_pc' = "convert"
  /\ UNCHANGED <<notBt, bt_store, bt_readers, bt_writer, bt_op, bt_ops>>

\* The innermost convertToSchemaNode call.
Top == bt_stack[Len(bt_stack)]

\* convertToSchemaNode recurses into the child: an array property, or a
\* property that is not a leaf without children.
Recurses(child, key) ==
  \/ isArrayPath(key)
  \/ ~(IsLeaf(bt_snap, child) /\ Children(bt_snap, child) = {})

\* convertToSchemaNode: store.mu.RLock(); a leaf returns its leaf schema, any
\* other node goes through its children.
BuildRLock ==
  /\ bt_pc = "convert"
  /\ ~Top.locked
  /\ StoreRLockFree
  /\ bt_readers' = bt_readers + 1
  /\ bt_stack' = [bt_stack EXCEPT ![Len(bt_stack)] =
                    Frame(Top.node, Children(bt_snap, Top.node), TRUE)]
  /\ UNCHANGED <<notBt, bt_store, bt_snap, bt_pc, bt_writer, bt_op, bt_ops>>

\* convertToSchemaNode: for key, child := range node.children, in any order;
\* a leaf property is read in place, any other child is a nested call.
BuildChild ==
  /\ bt_pc = "convert"
  /\ Top.locked
  /\ \E key \in Top.todo :
       LET child == Child(Top.node, key)
           rest == [bt_stack EXCEPT ![Len(bt_stack)] =
                      Frame(Top.node, Top.todo \ {key}, TRUE)]
       IN bt_stack' = IF Recurses(child, key)
                      THEN Append(rest, Frame(child, {}, FALSE))
                      ELSE rest
  /\ UNCHANGED <<notBt, bt_store, bt_snap, bt_pc, bt_readers, bt_writer,
                 bt_op, bt_ops>>

\* convertToSchemaNode returns: defer store.mu.RUnlock().
BuildReturn ==
  /\ bt_pc = "convert"
  /\ Top.locked
  /\ Top.todo = {}
  /\ bt_readers' = bt_readers - 1
  /\ bt_stack' = SubSeq(bt_stack, 1, Len(bt_stack) - 1)
  /\ bt_pc' = IF Len(bt_stack) = 1 THEN "done" ELSE "convert"
  /\ UNCHANGED <<notBt, bt_store, bt_snap, bt_writer, bt_op, bt_ops>>

\* Another goroutine calls AddObservation, AddValue or FinalizeOptional and
\* enters s.mu.Lock().
MutatorCall ==
  /\ bt_writer = "idle"
  /\ bt_ops < MaxMutations
  /\ \E op \in MutatorOps : bt_op' = op
  /\ bt_writer' = "waiting"
  /\ bt_ops' = bt_ops + 1
  /\ UNCHANGED <<notBt, bt_store, bt_snap, bt_pc, bt_stack, bt_readers>>

\* s.mu.Lock() returns and the call changes the store.
MutatorLocked ==
  /\ bt_writer = "waiting"
  /\ StoreLockFree
  /\ bt_store' = ApplyOp(bt_store, bt_op)
  /\ bt_writer' = "holding"
  /\ UNCHANGED <<notBt, bt_snap, bt_pc, bt_stack, bt_readers, bt_op, bt_ops>>

\* defer s.mu.Unlock()
MutatorUnlock ==
  /\ bt_writer = "holding"
  /\ bt_writer' = "idle"
  /\ UNCHANGED <<notBt, bt_store, bt_snap, bt_pc, bt_stack, bt_readers, bt_op,
                 bt_ops>>

\* The steps of the goroutine running BuildSchemaTree.
BuildSteps == BuildEmpty \/ BuildGetPaths \/ BuildRLock \/ BuildChild \/ BuildReturn

\* The steps of the goroutine inside a mutating call.
MutatorSteps == MutatorLocked \/ MutatorUnlock

BuildNext ==
  \/ BuildEmpty
  \/ BuildGetPaths
  \/ BuildRLock
  \/ BuildChild
  \/ BuildReturn
  \/ MutatorCall
  \/ MutatorLocked
  \/ MutatorUnlock

(***************************************************************************)
(* ReadFile (src/pkg/ir/reader.go) on one file: the format is chosen from  *)
(* the extension of the path, or from the first bytes of the content.      *)
(***************************************************************************)
\* Version: the IR schema version of a batch.
IRVersion == <<"i", "r", ".", "v", "1">>

\* filepath.Ext(path): the suffix beginning at the final dot of the final
\* element of the path, or the empty string.
FileExt(path) ==
  LET dots == {i \in 1..Len(path) :
                 /\ path[i] = "."
                 /\ \A j \in i..Len(path) : path[j] # "/"}
  IN IF dots = {} THEN <<>>
     ELSE SubSeq(path, CHOOSE i \in dots : \A j \in dots : j <= i, Len(path))

\* strings.ToLower
LowerString(s) == [i \in 1..Len(s) |-> ToLower(s[i])]

RECURSIVE JoinRecords(_)
\* The elements of a JSON array of records, a comma between two records.
JoinRecords(records) ==
  IF records = <<>> THEN <<>>
  ELSE IF Len(records) = 1 THEN Marshal(records[1])
  ELSE Marshal(records[1]) \o <<Tok("RECSEP", 1)>> \o JoinRecords(Tail(records))

\* WriteBatch: encoder.Encode(NewBatch(records)), the metadata left out.
EncodeBatch(version, records) ==
  <<Tok("{", 1), Tok("\"version\":", 10)>> \o Quoted(version)
  \o <<Tok(",\"records\":[", 12)>> \o JoinRecords(records)
  \o <<Tok("]}", 2), Tok("LF", 1)>>

\* WriteNDJSON: every record on a line of its own.
EncodeNDJSON(records) ==
  JoinLines([i \in 1..Len(records) |-> Marshal(records[i])], TRUE)

\* GzipNDJSONWriter: the gzip stream of the NDJSON lines.
EncodeGzip(records) == <<GzipHeader>> \o EncodeNDJSON(records) \o <<GzipTrailer>>

\* json.Marshal(records): a bare array of records.
EncodeArray(records) ==
  <<Tok("[", 1)>> \o JoinRecords(records) \o <<Tok("]", 1)>>

\* What the readers return: the records and a nil error, or no records and
\* the error.
ReadOk(records) == [err |-> "", records |-> records]

ReadFailed(err) == [err |-> err, records |-> <<>>]

RECURSIVE DecodeRecords(_, _)
\* The records of the elements of a JSON array, read after `records`.
DecodeRecords(toks, records) ==
  IF toks = <<>> THEN ReadOk(records)
  ELSE LET seps == {i \in 1..Len(toks) : toks[i].c = "RECSEP"}
           k == IF seps = {} THEN Len(toks) + 1
                ELSE CHOOSE i \in seps : \A j \in seps : i <= j
           d == Unmarshal(SubSeq(toks, 1, k - 1))
       IN IF ~d.ok THEN ReadFailed("decoding")
          ELSE DecodeRecords(SubSeq(toks, k + 1, Len(toks)), Append(records, d.rec))

\* ReadBatch: the records of a batch of the current version.
ReadBatch(bytes) ==
  IF ~(At(bytes, 1, "{") /\ At(bytes, 2, "\"version\":") /\ At(bytes, 3, "QUOTE"))
  THEN ReadFailed("decoding batch JSON")
  ELSE LET version == DecodeString(bytes, 4, <<>>, 0)
           ends == {i \in 1..Len(bytes) : bytes[i].c = "]}"}
       IN IF ~version.ok \/ ~At(bytes, version.next, ",\"records\":[") \/ ends = {}
          THEN ReadFailed("decoding batch JSON")
          ELSE LET last == CHOOSE i \in ends : \A j \in ends : j <= i
                   recs == DecodeRecords(
                             SubSeq(bytes, version.next + 1, last - 1), <<>>)
               IN IF recs.err # "" THEN ReadFailed("decoding batch JSON")
                  ELSE IF version.s # IRVersion
                  THEN ReadFailed("unsupported IR version")
                  ELSE recs

RECURSIVE ReadNDJSONFrom(_, _, _)
\* ReadNDJSON: for scanner.Scan() { lineNum++ ... }, then scanner.Err().
ReadNDJSONFrom(rest, lineNum, records) ==
  IF rest = <<>> THEN ReadOk(records)
  ELSE LET sc == ScanLine(rest, ScannerMaxTokenSize)
       IN IF sc.tooLong THEN ReadFailed("scanning NDJSON")
          ELSE IF TrimSpace(sc.line) = <<>>
          THEN ReadNDJSONFrom(sc.after, lineNum + 1, records)
          ELSE LET d == Unmarshal(TrimSpace(sc.line))
               IN IF ~d.ok THEN ReadFailed("line")
                  ELSE ReadNDJSONFrom(sc.after, lineNum + 1,
                                      Append(records, d.rec))

\* ReadNDJSON
ReadNDJSON(bytes) == ReadNDJSONFrom(bytes, 0, <<>>)

\* strings.TrimSpace(string(data)): the white space at both ends removed, the
\* newlines too.
TrimData(data) ==
  LET solid == {i \in 1..Len(data) : ~IsSpace(data[i]) /\ data[i].c # "LF"}
  IN IF solid = {} THEN <<>>
     ELSE SubSeq(data, CHOOSE i \in solid : \A j \in solid : i <= j,
                 CHOOSE i \in solid : \A j \in solid : j <= i)

\* strings.Contains(trimmed[:min(100, len(trimmed))], `"version"`)
LooksLikeBatch(trimmed) ==
  \E i \in 1..Len(trimmed) :
     /\ trimmed[i].c = "\"version\":"
     /\ ByteLen(SubSeq(trimmed, 1, i - 1)) + 9 <= 100

\* A reader with the format it chose and whether it chose it from the
\* content.
Chosen(codec, peeked, result) ==
  [codec |-> codec, peeked |-> peeked, err |-> result.err,
   records |-> result.records]

\* readAutoDetect: the format from the first significant character.
readAutoDetect(data) ==
  LET trimmed == TrimData(data)
  IN IF trimmed = <<>> THEN Chosen("none", TRUE, ReadFailed("empty input"))
     ELSE IF trimmed[1].c = "{"
     THEN IF LooksLikeBatch(trimmed)
          THEN Chosen("batch", TRUE, ReadBatch(data))
          ELSE Chosen("ndjson", TRUE, ReadNDJSON(data))
     ELSE IF trimmed[1].c = "["
     THEN LET ends == {i \in 1..Len(trimmed) : trimmed[i].c = "]"}
          IN IF ends = {} \/ trimmed[Len(trimmed)].c # "]"
             THEN Chosen("array", TRUE, ReadFailed("decoding JSON array"))
             ELSE LET recs == DecodeRecords(
                                SubSeq(trimmed, 2, Len(trimmed) - 1), <<>>)
                  IN Chosen("array", TRUE,
                            IF recs.err # "" THEN ReadFailed("decoding JSON array")
                            ELSE recs)
     ELSE Chosen("none", TRUE, ReadFailed("unrecognized format"))

\* ReadFile on a file that exists.
ReadFile(path, bytes) ==
  LET ext == LowerString(FileExt(path))
  IN CASE ext = <<".", "n", "d", "j", "s", "o", "n">> ->
            Chosen("ndjson", FALSE, ReadNDJSON(bytes))
       [] ext = <<".", "j", "s", "o", "n">> ->
            Chosen("batch", FALSE, ReadBatch(bytes))
       [] OTHER -> readAutoDetect(bytes)

\* The formats files are written in.
FileFormats == {"batch", "ndjson", "gzip", "array"}

\* The bytes of a file of the format that stores the records.
EncodeFile(format, records) ==
  CASE format = "batch" -> EncodeBatch(IRVersion, records)
    [] format = "ndjson" -> EncodeNDJSON(records)
    [] format = "gzip" -> EncodeGzip(records)
    [] OTHER -> EncodeArray(records)

\* The paths of the files, each with the formats it is written in: the
\* format its name stands for, any format for a name without extension.
FilePaths ==
  {[path |-> <<"t", ".", "j", "s", "o", "n">>, formats |-> {"batch"}],
   [path |-> <<"t", ".", "n", "d", "j", "s", "o", "n">>, formats |-> {"ndjson"}],
   [path |-> <<"t", ".", "n", "d", "j", "s", "o", "n", ".", "g", "z">>,
    formats |-> {"gzip"}],
   [path |-> <<"a", ".", "b", "/", "t">>, formats |-> FileFormats]}

ReadFileStart(path, format, records) ==
  /\ rf_name = path
  /\ rf_format = format
  /\ rf_records = records
  /\ rf_bytes = EncodeFile(format, records)
  /\ rf_out = <<>>

\* A file written in the format of its name with up to MaxFileRecords records.
ReadFileInit ==
  \E file \in FilePaths :
    \E format \in file.formats :
      \E records \in UNION {[1..n -> TestRecords] : n \in 0..MaxFileRecords} :
        ReadFileStart(file.path, format, records)

\* The component at rest, for the specifications that do not use it.
ReadFileIdle == ReadFileStart(<<"t">>, "ndjson", <<>>)

\* ReadFile(path)
ReadFileCall ==
  /\ Len(rf_out) < MaxFileReads
  /\ rf_out' = Append(rf_out, ReadFile(rf_name, rf_bytes))
  /\ UNCHANGED <<notRf, rf_name, rf_format, rf_records, rf_bytes>>

ReadFileNext == ReadFileCall

(***************************************************************************)
(* Specifications: one per component, the other components at rest.        *)
(***************************************************************************)
InitAsync == AsyncInit /\ MultiIdle /\ ChanIdle /\ TransportIdle /\ ProviderIdle /\ FileWriterIdle /\ StoreIdle /\ EngineIdle /\ PathIdle /\ GeneratorIdle /\ MergeIdle /\ ContextIdle /\ ReaderIdle /\ BuildIdle /\ ReadFileIdle

SpecAsync == InitAsync /\ [][AsyncNext]_vars

InitMulti == MultiInit /\ AsyncIdle /\ ChanIdle /\ TransportIdle /\ ProviderIdle /\ FileWriterIdle /\ StoreIdle /\ EngineIdle /\ PathIdle /\ GeneratorIdle /\ MergeIdle /\ ContextIdle /\ ReaderIdle /\ BuildIdle /\ ReadFileIdle

SpecMulti == InitMulti /\ [][MultiNext]_vars

InitChan == ChanInit /\ AsyncIdle /\ MultiIdle /\ TransportIdle /\ ProviderIdle /\ FileWriterIdle /\ StoreIdle /\ EngineIdle /\ PathIdle /\ GeneratorIdle /\ MergeIdle /\ ContextIdle /\ ReaderIdle /\ BuildIdle /\ ReadFileIdle

SpecChan == InitChan /\ [][ChanNext]_vars

InitTransport == TransportInit /\ AsyncIdle /\ MultiIdle /\ ChanIdle /\ ProviderIdle /\ FileWriterIdle /\ StoreIdle /\ EngineIdle /\ PathIdle /\ GeneratorIdle /\ MergeIdle /\ ContextIdle /\ ReaderIdle /\ BuildIdle /\ ReadFileIdle

SpecTransport == InitTransport /\ [][TransportNext]_vars

InitProvider == ProviderInit /\ AsyncIdle /\ MultiIdle /\ ChanIdle /\ TransportIdle /\ FileWriterIdle /\ StoreIdle /\ EngineIdle /\ PathIdle /\ GeneratorIdle /\ MergeIdle /\ ContextIdle /\ ReaderIdle /\ BuildIdle /\ ReadFileIdle

SpecProvider == InitProvider /\ [][ProviderNext]_vars

InitFileWriter ==
  /\ FileWriterInit /\ AsyncIdle /\ MultiIdle /\ ChanIdle /\ TransportIdle
  /\ ProviderIdle /\ StoreIdle /\ EngineIdle /\ PathIdle /\ GeneratorIdle /\ MergeIdle /\ ContextIdle /\ ReaderIdle /\ BuildIdle /\ ReadFileIdle

SpecFileWriter == InitFileWriter /\ [][FileWriterNext]_vars

InitStore ==
  /\ StoreInit /\ AsyncIdle /\ MultiIdle /\ ChanIdle /\ TransportIdle
  /\ ProviderIdle /\ FileWriterIdle /\ EngineIdle /\ PathIdle /\ GeneratorIdle /\ MergeIdle /\ ContextIdle /\ ReaderIdle /\ BuildIdle /\ ReadFileIdle

SpecStore == InitStore /\ [][StoreNext]_vars

InitEngine ==
  /\ EngineInit /\ AsyncIdle /\ MultiIdle /\ ChanIdle /\ TransportIdle
  /\ ProviderIdle /\ FileWriterIdle /\ StoreIdle /\ PathIdle /\ GeneratorIdle /\ MergeIdle /\ ContextIdle /\ ReaderIdle /\ BuildIdle /\ ReadFileIdle

SpecEngine == InitEngine /\ [][EngineNext]_vars

InitPath ==
  /\ PathInit /\ AsyncIdle /\ MultiIdle /\ ChanIdle /\ TransportIdle
  /\ ProviderIdle /\ FileWriterIdle /\ StoreIdle /\ EngineIdle /\ GeneratorIdle /\ MergeIdle /\ ContextIdle /\ ReaderIdle /\ BuildIdle /\ ReadFileIdle

SpecPath == InitPath /\ [][PathNext]_vars

InitGenerator ==
  /\ GeneratorInit /\ AsyncIdle /\ MultiIdle /\ ChanIdle /\ TransportIdle
  /\ ProviderIdle /\ FileWriterIdle /\ StoreIdle /\ EngineIdle /\ PathIdle
  /\ MergeIdle /\ ContextIdle /\ ReaderIdle /\ BuildIdle /\ ReadFileIdle

SpecGenerator == InitGenerator /\ [][GeneratorNext]_vars

InitMerge ==
  /\ MergeInit /\ AsyncIdle /\ MultiIdle /\ ChanIdle /\ TransportIdle
  /\ ProviderIdle /\ FileWriterIdle /\ StoreIdle /\ EngineIdle /\ PathIdle
  /\ GeneratorIdle /\ ContextIdle /\ ReaderIdle /\ BuildIdle /\ ReadFileIdle

SpecMerge == InitMerge /\ [][MergeNext]_vars

InitContext ==
  /\ ContextInit /\ AsyncIdle /\ MultiIdle /\ ChanIdle /\ TransportIdle
  /\ ProviderIdle /\ FileWriterIdle /\ StoreIdle /\ EngineIdle /\ PathIdle
  /\ GeneratorIdle /\ MergeIdle /\ ReaderIdle /\ BuildIdle /\ ReadFileIdle

SpecContext == InitContext /\ [][ContextNext]_vars

InitReader ==
  /\ ReaderInit /\ AsyncIdle /\ MultiIdle /\ ChanIdle /\ TransportIdle
  /\ ProviderIdle /\ FileWriterIdle /\ StoreIdle /\ EngineIdle /\ PathIdle
  /\ GeneratorIdle /\ MergeIdle /\ ContextIdle /\ BuildIdle /\ ReadFileIdle

SpecReader == InitReader /\ [][ReaderNext]_vars

InitBuild ==
  /\ BuildInit /\ AsyncIdle /\ MultiIdle /\ ChanIdle /\ TransportIdle
  /\ ProviderIdle /\ FileWriterIdle /\ StoreIdle /\ EngineIdle /\ PathIdle
  /\ GeneratorIdle /\ MergeIdle /\ ContextIdle /\ ReaderIdle /\ ReadFileIdle

SpecBuild == InitBuild /\ [][BuildNext]_vars

\* The goroutine running BuildSchemaTree and the goroutine inside a mutating
\* call are scheduled whenever they can take a step; no new call has to be
\* made.
SpecBuildFair ==
  /\ SpecBuild
  /\ WF_vars(BuildSteps)
  /\ WF_vars(MutatorSteps)

InitReadFile ==
  /\ ReadFileInit /\ AsyncIdle /\ MultiIdle /\ ChanIdle /\ TransportIdle
  /\ ProviderIdle /\ FileWriterIdle /\ StoreIdle /\ EngineIdle /\ PathIdle
  /\ GeneratorIdle /\ MergeIdle /\ ContextIdle /\ ReaderIdle /\ BuildIdle

SpecReadFile == InitReadFile /\ [][ReadFileNext]_vars

\* The goroutines inside a Write or a Close are scheduled whenever they can
\* take a step; nothing obliges a consumer to read, or a caller to call.
SpecChanFair ==
  /\ SpecChan
  /\ \A p \in AProcs : WF_vars(ChanWriterSteps(p))

InitChanProvider ==
  /\ ChanProviderInit /\ AsyncIdle /\ MultiIdle /\ TransportIdle
  /\ ProviderIdle /\ FileWriterIdle /\ StoreIdle /\ EngineIdle /\ PathIdle
  /\ GeneratorIdle /\ MergeIdle /\ ContextIdle /\ ReaderIdle /\ BuildIdle
  /\ ReadFileIdle

SpecChanProvider == InitChanProvider /\ [][ChanNext]_vars

(***************************************************************************)
(* Claims about AsyncNDJSONWriter, checked under SpecAsync.                *)
(***************************************************************************)
\* The records of the Write events in the underlying writer's call log.
WrittenRecs(log) ==
  LET W == SelectSeq(log, LAMBDA e : e.op = "Write")
  IN [i \in 1..Len(W) |-> W[i].rec]

\* The records whose Write had returned when the call c started.
SnapOf(c) == SubSeq(aw_accepted, 1, c.snap)

\* The call c is drained: the records of its snapshot were each handed to the
\* underlying writer once, in Write order, and none after the writer's Close.
Drained(c) ==
  /\ SelectSeqIn(WrittenRecs(aw_wlog), Range(SnapOf(c))) = SnapOf(c)
  /\ \A i, j \in 1..Len(aw_wlog) :
       (aw_wlog[i].op = "Close" /\ aw_wlog[j].op = "Write"
          /\ aw_wlog[j].rec \in Range(SnapOf(c))) => j < i

\* C1: when a Close call returns, every record whose Write returned before
\* that Close was called has been written to the underlying writer exactly
\* once, in Write order, and the underlying writer was closed only after them.
C1_CloseDrains ==
  aw_last.op = "Close" => Drained(aw_last)

\* The Close call that found the writer open (and so shut it down) drains,
\* and the underlying writer is closed when it returns.
CloseOfOpenWriterDrains ==
  (aw_last.op = "Close" /\ aw_last.open) =>
     /\ Drained(aw_last)
     /\ \E i \in 1..Len(aw_wlog) : aw_wlog[i].op = "Close"

\* The index of the last Flush of the underlying writer done for caller p.
LastFlushFor(p) ==
  LET I == {i \in 1..Len(aw_wlog) :
              aw_wlog[i].op = "Flush" /\ aw_wlog[i].rec = p}
  IN IF I = {} THEN 0 ELSE CHOOSE i \in I : \A j \in I : j <= i

\* C2: when a Flush that found the writer open returns, every record whose
\* Write returned before the Flush was called has been written to the
\* underlying writer, the underlying writer was flushed after them, and Flush
\* returns the result of that flush.
C2_FlushIsBarrier ==
  (aw_last.op = "Flush" /\ aw_last.open) =>
     LET f == LastFlushFor(aw_last.by)
     IN /\ f > 0
        /\ aw_wlog[f].res = aw_last.ret
        /\ \A r \in Range(SnapOf(aw_last)) :
             \E j \in 1..(f - 1) : aw_wlog[j].op = "Write" /\ aw_wlog[j].rec = r
        /\ SelectSeqIn(WrittenRecs(aw_wlog), Range(SnapOf(aw_last)))
             = SnapOf(aw_last)

\* A Flush on an open writer returned with two records accepted before it.
C2_Witness ==
  /\ aw_last.op = "Flush"
  /\ aw_last.open
  /\ aw_last.snap >= 2

\* The record r is in the channel, held by writeLoop, or in the writer's log.
Enqueued(r) ==
  \/ r \in Range(aw_ch)
  \/ r = aw_loopRec
  \/ r \in Range(aw_accepted)
  \/ \E i \in 1..Len(aw_wlog) : aw_wlog[i].op = "Write" /\ aw_wlog[i].rec = r

\* C4 as stated: a Write issued after Close has returned returns an error, and
\* its record is neither enqueued nor written.
C4_WriteAfterCloseFails ==
  (aw_last.op = "Write" /\ aw_last.late) =>
     /\ aw_last.ret = "err"
     /\ ~Enqueued(aw_last.rec)

\* C4 amended: a Write issued after Close has returned returns nil, without
\* panicking, and its record is neither enqueued nor written.
C4_WriteAfterCloseIgnored ==
  /\ (aw_last.op = "Write" /\ aw_last.late) =>
        /\ aw_last.ret = "nil"
        /\ ~Enqueued(aw_last.rec)
  /\ \A p \in AProcs :
        (aw_cur[p].op = "Write" /\ aw_cur[p].late) =>
           /\ aw_pc[p] # "panicked"
           /\ ~Enqueued(aw_cur[p].rec)

\* A Write issued after a Close returned has itself returned.
C4_Witness ==
  /\ aw_last.op = "Write"
  /\ aw_last.late
  /\ aw_closeReturned

\* A Write that holds w.mu and found the writer open can complete its send.
CanSend(p) == ENABLED AWriteSend(p) \/ ENABLED AWriteHandOff(p)

C34_FlushNeverStrandedByClose ==
  \A p \in AProcs : ~(aw_pc[p] = "f_send" /\ aw_lpc = "exited")

\* A Flush is blocked on the hand-off after writeLoop has exited only when
\* Close set w.closed after the Flush passed its closed check; a Flush whose
\* barrier writeLoop has taken gets its answer from writeLoop.
FlushStrandedOnlyAfterItsCheck ==
  \A p \in AProcs :
     /\ (aw_pc[p] = "f_send" /\ aw_lpc = "exited")
          => (aw_closed /\ aw_cur[p].open)
     /\ (aw_pc[p] = "f_send" /\ ~aw_closed) => aw_lpc # "exited"
     /\ (aw_pc[p] = "f_wait" /\ aw_respCh[p] = "empty")
          => (aw_lpc \in {"drainF", "dwriteF"} /\ aw_loopResp = p)

\* C38: no interleaving of concurrent Write, Flush and Close calls sends on
\* the closed input channel or closes a channel twice: the channels are
\* closed only after w.closed is set, and a Write that holds w.mu while the
\* channel is closed observes the closed flag and enqueues nothing; records
\* are enqueued only while w.closed is not set.
C38_NoSendOnClosedNoDoubleClose ==
  /\ ~aw_panic
  /\ \A p \in AProcs : aw_pc[p] # "panicked"
  /\ (aw_chClosed \/ aw_done) => aw_closed
  /\ \A p \in AProcs :
       (aw_pc[p] = "w_locked" /\ aw_closed) =>
         (ENABLED AWriteClosed(p) /\ ~ENABLED AWriteSend(p)
          /\ ~ENABLED AWriteHandOff(p))

\* A Write holds w.mu and has found w.closed set by a Close that has not
\* closed the channels yet, after an earlier record was enqueued.
C38_Witness ==
  \E p, q \in AProcs :
     /\ aw_pc[p] = "w_locked"
     /\ aw_pc[q] = "c_closech"
     /\ aw_accepted # <<>>

(***************************************************************************)
(* Claims about MultiWriter, checked under SpecMulti.                      *)
(***************************************************************************)
\* The calls destination d received, without their results.
CallsOf(d) == [i \in 1..Len(mw_dest[d]) |->
                 [op |-> mw_dest[d][i].op, rec |-> mw_dest[d][i].rec]]

\* The records destination d holds: those of the Writes it accepted.
HeldBy(d) ==
  LET W == SelectSeq(mw_dest[d], LAMBDA e : e.op = "Write" /\ e.ok)
  IN [i \in 1..Len(W) |-> W[i].rec]

\* Destination d never returned an error.
NeverFailed(d) == \A i \in 1..Len(mw_dest[d]) : mw_dest[d][i].ok

\* C3: each Write, Flush and Close of the MultiWriter reaches every
\* destination exactly once, in construction order, whichever destinations
\* fail; a destination that never failed holds all N written records in call
\* order; the call returns nil iff no destination failed, and otherwise the
\* errors of all the failing destinations joined.
C3_MultiWriterForwardsToAll ==
  mw_last.op # "none" =>
    /\ mw_last.reached = mw_writers
    /\ mw_last.ret = SelectSeqIn(mw_writers, mw_last.failing)
    /\ (mw_last.ret = <<>>) <=> (mw_last.failing = {})
    /\ \A d \in Range(mw_writers) :
         /\ CallsOf(d) = mw_hist
         /\ NeverFailed(d) => HeldBy(d) = [i \in 1..MultiWrites |-> i]

\* Two Writes were made to two destinations; the first destination failed in
\* the last call and the second one never failed.
C3_Witness ==
  /\ Len(mw_writers) = 2
  /\ MultiWrites = 2
  /\ 1 \in mw_last.failing
  /\ NeverFailed(2)
  /\ mw_last.op \in {"Write", "Close"}

(***************************************************************************)
(* Claims about ChannelWriter, checked under SpecChan.                     *)
(***************************************************************************)
\* The number of times record r was delivered to the channel.
TimesDelivered(r) == Cardinality({i \in 1..Len(Delivered) : Delivered[i] = r})

\* C5: Close calls on one ChannelWriter, sequential or concurrent, close the
\* channel exactly once and all return nil; a Write that starts after a Close
\* has returned returns ErrChannelClosed and sends nothing on the channel.
C5_CloseIdempotentAndFinal ==
  /\ ~cw_panic
  /\ cw_closeReturned[1] > 0 => cw_chCloses = 1
  /\ cw_last.op = "Close" => cw_last.ret = "nil"
  /\ (cw_last.op = "Write" /\ cw_last.late) =>
        /\ cw_last.ret = "ErrChannelClosed"
        /\ TimesDelivered(cw_last.rec) = 0
  /\ \A p \in AProcs :
        (cw_cur[p].op = "Write" /\ cw_cur[p].late) =>
           TimesDelivered(cw_cur[p].rec) = 0

\* Two Close calls have returned, and a Write started after one of them has
\* returned too.
C5_Witness ==
  /\ cw_closeReturned[1] >= 2
  /\ cw_last.op = "Write"
  /\ cw_last.late

\* C6: under any interleaving of Writes from several goroutines, a Close and
\* a consumer, every Write that returned nil delivered its record exactly
\* once and nothing else was delivered; a Write that returned
\* ErrChannelClosed delivered nothing; no send is made on a closed channel.
C6_ChannelWriterThreadSafe ==
  /\ ~cw_panic
  /\ \A r \in cw_okRecs : TimesDelivered(r) = 1
  /\ Range(Delivered) = cw_okRecs
  /\ cw_last.op = "Write" =>
        /\ cw_last.ret \in {"nil", "ErrChannelClosed"}
        /\ cw_last.ret = "ErrChannelClosed" => TimesDelivered(cw_last.rec) = 0
        /\ cw_last.ret = "nil" => TimesDelivered(cw_last.rec) = 1

\* Two Writes delivered their records and the consumer received them, and a
\* Write that started before any Close had returned lost the race.
C6_Witness ==
  /\ Cardinality(cw_okRecs) >= 2
  /\ Len(SelectSeq(cr_out, LAMBDA x : x # 0)) >= 2
  /\ cw_last.op = "Write"
  /\ ~cw_last.late
  /\ cw_last.ret = "ErrChannelClosed"

\* The records the Read calls returned, in order.
ReaderReceived == SelectSeq(cr_out, LAMBDA x : x # 0)

\* A Read call returned in this step.
ReadReturns == Len(cr_out') = Len(cr_out) + 1

C35_SharedChannelClosedOnce ==
  /\ cw_chCloses <= 1
  /\ ~cw_panic

\* The writers whose closed flag is set.
ClosedWriters == {w \in cw_writers : cw_closed[w]}

\* close(w.ch) runs once for every writer closed, and a call panics only
\* when a writer other than its own has been closed.
SharedChannelClosedOncePerWriter ==
  /\ cw_chCloses = Cardinality(ClosedWriters)
  /\ cw_panic =>
       \E p \in AProcs :
          /\ cw_pc[p] = "panicked"
          /\ \E w \in ClosedWriters : w # cw_cur[p].w

\* C37: ChannelWriter.Close always returns, also when a Write on the same
\* writer is blocked sending on a full or unbuffered channel that no
\* consumer is reading.
C37_CloseAlwaysReturns ==
  \A p \in AProcs : (cw_pc[p] = "c_lock") ~> (cw_pc[p] = "idle")

\* A Close that cannot take w.mu.Lock() is waiting for a Write of the same
\* writer that holds the read lock, or for another Close that holds the
\* lock; once it has the lock it returns.
CloseWaitsOnlyForWriteOrClose ==
  \A p \in AProcs :
     /\ (cw_pc[p] = "c_lock" /\ ~ENABLED ChanCloseLocked(p)) =>
          \E q \in AProcs \ {p} :
             /\ cw_cur[q].w = cw_cur[p].w
             /\ cw_pc[q] \in {"w_check", "w_send", "c_unlock"}
     /\ cw_pc[p] = "c_unlock" => ENABLED ChanCloseReturn(p)

(***************************************************************************)
(* Claims about LoggingTransport, checked under SpecTransport.             *)
(***************************************************************************)
\* The request passes the pre-flight filters: it is sampled, its path starts
\* with no skipped prefix, its method and its host are allowed.
PassesFilters ==
  LET req == lt_last.req
      host == IF req.Hosts.URLHost # <<>> THEN req.Hosts.URLHost
              ELSE req.Hosts.Host
  IN /\ lt_opts.SampleRate \in {0, 100} \/ lt_last.draw <= lt_opts.SampleRate
     /\ \A p \in Range(lt_opts.SkipPaths) :
          Len(p) > Len(req.Path) \/ SubSeq(req.Path, 1, Len(p)) # p
     /\ lt_opts.AllowMethods = <<>>
          \/ \E m \in Range(lt_opts.AllowMethods) : EqualFold(m, req.Method)
     /\ lt_opts.AllowHosts = <<>>
          \/ \E h \in Range(lt_opts.AllowHosts) : EqualFold(h, host)

\* The wrapped transport returned a response whose status is not skipped.
ResponseLogged ==
  /\ ~lt_last.base.err
  /\ lt_last.base.StatusCode \notin Range(lt_opts.SkipStatusCodes)

\* C8: RoundTrip hands exactly one record to the writer iff the request
\* passes every pre-flight filter, the wrapped transport returns a response
\* and its status is not skipped; otherwise it hands none; the wrapped
\* transport is called exactly once.
C8_LogsExactlyWhenFiltersPass ==
  lt_last.op = "RoundTrip" =>
    /\ lt_last.baseCalls = 1
    /\ Len(lt_last.written) = IF PassesFilters /\ ResponseLogged THEN 1 ELSE 0
    /\ \A i \in 1..Len(lt_last.written) :
         /\ lt_last.written[i].request.method = lt_last.req.Method
         /\ lt_last.written[i].request.path = lt_last.req.Path
         /\ lt_last.written[i].response.status = lt_last.base.StatusCode

\* A request that passed a method filter, a host filter, a path filter and
\* the sampling was logged with a skip list configured.
C8_Witness ==
  /\ lt_last.op = "RoundTrip"
  /\ Len(lt_last.written) = 1
  /\ lt_opts.SampleRate = 50
  /\ lt_opts.SkipPaths # <<>>
  /\ lt_opts.AllowMethods # <<>>
  /\ lt_opts.AllowHosts # <<>>
  /\ lt_opts.SkipStatusCodes # <<>>
  /\ lt_last.req.Hosts.URLHost = <<>>

\* C9: for every logged request and every MaxBodySize, the wrapped transport
\* receives the caller's request body byte for byte, and the caller receives
\* the response body the wrapped transport produced byte for byte.
C9_BodyCaptureTransparent ==
  (lt_last.op = "RoundTrip" /\ Len(lt_last.written) = 1) =>
    /\ lt_last.baseBody = lt_last.req.Body
    /\ lt_last.retBody = lt_last.base.Body

\* The bodies pass through unchanged when no body is longer than a positive
\* MaxBodySize.
BodiesWithinLimitPassThrough ==
  (/\ lt_last.op = "RoundTrip"
   /\ lt_opts.MaxBodySize = 0
        \/ /\ Len(lt_last.req.Body.data) <= lt_opts.MaxBodySize
           /\ Len(lt_last.base.Body.data) <= lt_opts.MaxBodySize) =>
    /\ lt_last.baseBody = lt_last.req.Body
    /\ ~lt_last.base.err => lt_last.retBody = lt_last.base.Body

\* C10: when the writer's Write fails during RoundTrip, the caller still gets
\* the wrapped transport's response with a nil error and its whole body, and
\* the failure reaches the error handler exactly once, or is dropped when
\* there is no handler.
C10_WriterFailureLeavesResult ==
  (lt_last.op = "RoundTrip" /\ Len(lt_last.written) = 1 /\ lt_last.writeErr) =>
    /\ ~lt_last.retErr
    /\ lt_last.retResp
    /\ lt_last.retStatus = lt_last.base.StatusCode
    /\ lt_last.retBody = lt_last.base.Body
    /\ lt_last.handled = IF lt_handler THEN 1 ELSE 0

\* The same without the body: the response, the nil error and the handler.
WriterFailureKeepsResponse ==
  (lt_last.op = "RoundTrip" /\ Len(lt_last.written) = 1 /\ lt_last.writeErr) =>
    /\ ~lt_last.retErr
    /\ lt_last.retResp
    /\ lt_last.retStatus = lt_last.base.StatusCode
    /\ lt_last.handled = IF lt_handler THEN 1 ELSE 0
    /\ ~lt_last.retBody.nil
    /\ \A i \in 1..Len(lt_last.retBody.data) :
         lt_last.retBody.data[i] = lt_last.base.Body.data[i]

\* C11: when the wrapped transport's call fails, RoundTrip returns that error
\* and no response, hands no record to the writer and does not invoke the
\* error handler; the wrapped transport was called once.
C11_BaseErrorPropagates ==
  (lt_last.op = "RoundTrip" /\ lt_last.base.err) =>
    /\ lt_last.retErr
    /\ ~lt_last.retResp
    /\ lt_last.retBody = NilBody
    /\ lt_last.written = <<>>
    /\ lt_last.handled = 0
    /\ lt_last.baseCalls = 1

\* The wrapped transport failed for a request that passed the filters, on a
\* transport with an error handler whose writer would have failed.
C11_Witness ==
  /\ lt_last.op = "RoundTrip"
  /\ lt_last.base.err
  /\ PassesFilters
  /\ lt_handler
  /\ lt_last.writeErr
  /\ lt_last.retErr

(***************************************************************************)
(* Claims about the providers, checked under SpecProvider.                 *)
(***************************************************************************)
\* The fields of a record that the round trip compares.
KeyOf(r) == [id |-> r.id, method |-> r.method, path |-> r.path,
             status |-> r.status]

\* The reader returned the written records, in order, and then io.EOF.
ReadBackAll ==
  /\ Len(pv_out) = Len(pv_written) + 1
  /\ \A i \in 1..Len(pv_written) :
       /\ pv_out[i].kind = "rec"
       /\ KeyOf(pv_out[i].rec) = KeyOf(pv_written[i])
  /\ pv_out[Len(pv_out)].kind = "eof"

\* The writer was closed and the reader has read to the end of the stream.
WrittenThenRead == pv_wstate = "closed" /\ pv_rstate = "done"

\* C7: for each provider, writing records, closing the writer and reading to
\* the end of the stream yields exactly the written records, in order, with
\* equal id, method, path and status.
C7_ProviderSymmetry == WrittenThenRead => ReadBackAll

\* The strings of r are valid UTF-8.
ValidUTF8(r) ==
  "BAD" \notin (Range(r.id.s) \cup Range(r.method) \cup Range(r.path))

\* r's line is shorter than the maximum line size of the provider's reader.
FitsLine(r) == LineLimit = 0 \/ ByteLen(Marshal(r)) < LineLimit

\* C7 amended: the channel provider yields the written records for all
\* records; a file, gzip or object-store provider does so when every record's
\* strings are valid UTF-8 and every record's JSON line is shorter than the
\* reader's maximum line size.
C7_ProviderSymmetryWithinLimits ==
  (/\ WrittenThenRead
   /\ pv_kind # "channel" =>
        \A i \in 1..Len(pv_written) :
           ValidUTF8(pv_written[i]) /\ FitsLine(pv_written[i])) =>
    ReadBackAll

\* Two records were read back from a gzip file: one with a newline in its
\* path and no id, one whose line is one byte short of the maximum.
C7_Witness ==
  /\ WrittenThenRead
  /\ pv_kind = "gzip"
  /\ Len(pv_written) = 2
  /\ pv_written[1].id.nil
  /\ "LF" \in Range(pv_written[1].path)
  /\ ByteLen(Marshal(pv_written[2])) = ScannerMaxTokenSize - 1
  /\ ReadBackAll

(***************************************************************************)
(* Claims about NDJSONWriter and GzipNDJSONWriter under concurrent calls,  *)
(* checked under SpecFileWriter.                                           *)
(***************************************************************************)
\* No Write call is in progress.
FileWriterQuiet == \A p \in AProcs : nw_pc[p] = "idle"

\* The output is a sequence of complete lines: each record's JSON is
\* followed at once by its own newline.
WholeLines ==
  /\ Len(nw_out) % 2 = 0
  /\ \A i \in 1..Len(nw_out) :
       IF i % 2 = 1
       THEN /\ nw_out[i].c = "data"
            /\ nw_out[i + 1] = [c |-> "LF", rec |-> nw_out[i].rec]
       ELSE nw_out[i].c = "LF"

\* C12: under any interleaving of concurrent Write calls on one NDJSONWriter
\* or GzipNDJSONWriter, once the calls have returned the output consists of
\* complete lines (each record's JSON directly followed by its newline) and
\* Count equals the number of Writes that returned nil.
C12_FileWritersThreadSafe ==
  FileWriterQuiet => (WholeLines /\ nw_count = nw_ok)

\* Without overlapping calls the same holds.
SequentialWritesWholeLines ==
  (FileWriterQuiet /\ ~nw_overlap) => (WholeLines /\ nw_count = nw_ok)

(***************************************************************************)
(* Claims about SchemaStore and BuildSchemaTree, checked under SpecStore.  *)
(***************************************************************************)
RECURSIVE PathsOf(_, _)
\* The field paths present in a value found at `path`: a scalar or null is
\* at its own path, the members of an object are beneath it, the elements of
\* an array are beneath the array marker.
PathsOf(value, path) ==
  CASE value.k = "object" ->
         UNION {PathsOf(value.f[i].val, joinPath(path, value.f[i].key)) :
                  i \in 1..Len(value.f)}
    [] value.k = "array" ->
         LET marker == path \o <<"[", "]">>
         IN IF Len(value.f) = 0 \/ value.f[1].val.k # "object"
            THEN {marker}
            ELSE UNION {PathsOf(value.f[i].val, marker) : i \in 1..Len(value.f)}
    [] OTHER -> {path}

\* The observations: the bodies that are not nil.
Observations == SelectSeq(ss_bodies, LAMBDA body : body.k # "nil")

\* The number of observations in which the path was present.
PresentIn(path) ==
  Cardinality({i \in 1..Len(Observations) :
                 path \in PathsOf(Observations[i], <<>>)})

\* The path is marked optional in the store.
MarkedOptional(path) == Lookup(ss_store.Optional, path, FALSE)

\* The path is beneath an array marker.
UnderArray(path) == \E i \in 1..Len(path) : path[i] = "["

\* C14: after N observations and finalization, every tracked path that was
\* present in k of the N observations is optional iff k < N (and required
\* iff k = N), whether top-level, nested or beneath an array marker.
C14_RequiredIffInEveryObservation ==
  ss_final =>
    \A path \in DOMAIN ss_store.seenCount :
       MarkedOptional(path) <=> (PresentIn(path) < Len(Observations))

\* The same for the paths that are not beneath an array marker.
RequiredIffInEveryObservationOutsideArrays ==
  ss_final =>
    \A path \in DOMAIN ss_store.seenCount :
       ~UnderArray(path) =>
         (MarkedOptional(path) <=> (PresentIn(path) < Len(Observations)))

\* The children of an object node whose full paths are not marked optional,
\* by property name.
NotOptionalChildren(node) ==
  {stripArraySuffix(key) :
     key \in {c \in Children(ss_store, node) :
                ~MarkedOptional(JoinSegments(Child(node, c)))}}

\* The list is in strictly ascending order.
StrictlySorted(list) ==
  \A i \in 1..Len(list) : \A j \in 1..Len(list) :
     i < j => StringLess(list[i], list[j])

\* C15: in a built schema tree, the required list of every object is the
\* sorted list of exactly those child properties whose full paths are not
\* marked optional, for scalar leaves, nested objects and array properties.
C15_RequiredListsSortedAndComplete ==
  ss_built =>
    \A node \in DOMAIN ss_tree :
       ss_tree[node].Type = "object" =>
         /\ StrictlySorted(ss_tree[node].Required)
         /\ Range(ss_tree[node].Required) = NotOptionalChildren(node)

\* The same for the children that are leaves of the tree: the required list
\* is sorted and holds exactly the leaf children not marked optional.
RequiredListsOfLeafChildren ==
  ss_built =>
    \A node \in DOMAIN ss_tree :
       ss_tree[node].Type = "object" =>
         /\ StrictlySorted(ss_tree[node].Required)
         /\ Range(ss_tree[node].Required) =
              {stripArraySuffix(key) :
                 key \in {c \in Children(ss_store, node) :
                            /\ IsLeaf(ss_store, Child(node, c))
                            /\ ~MarkedOptional(JoinSegments(Child(node, c)))}}

RECURSIVE FoldLeft(_, _, _)
\* op applied from the left over a list, starting from acc.
FoldLeft(op(_, _), acc, list) ==
  IF list = <<>> THEN acc ELSE FoldLeft(op, op(acc, Head(list)), Tail(list))

RECURSIVE ValuesSeen(_, _, _)
\* The values other than null observed at `path` in a value found at `at`,
\* in the order in which they are met: a scalar at its own path, the members
\* of an object one after the other, the elements of an array in index order
\* beneath the array marker.
ValuesSeen(value, at, path) ==
  CASE value.k = "nil" -> <<>>
    [] value.k = "object" ->
         FoldLeft(LAMBDA acc, m : acc \o ValuesSeen(m.val, joinPath(at, m.key), path),
              <<>>, value.f)
    [] value.k = "array" ->
         LET marker == at \o <<"[", "]">>
         IN IF Len(value.f) = 0 THEN <<>>
            ELSE IF value.f[1].val.k = "object"
            THEN FoldLeft(LAMBDA acc, m :
                        IF m.val.k = "object"
                        THEN acc \o ValuesSeen(m.val, marker, path) ELSE acc,
                      <<>>, value.f)
            ELSE FoldLeft(LAMBDA acc, m :
                        IF marker = path /\ m.val.k # "nil"
                        THEN Append(acc, [k |-> m.val.k, v |-> m.val.v]) ELSE acc,
                      <<>>, value.f)
    [] OTHER -> IF at = path THEN <<[k |-> value.k, v |-> value.v]>> ELSE <<>>

\* Every value other than null observed at the path so far, oldest first.
ObservedAt(path) ==
  FoldLeft(LAMBDA acc, body : acc \o ValuesSeen(body, <<>>, path), <<>>, ss_bodies)

\* The first occurrence of each distinct value of a list, in order.
FirstOccurrences(list) ==
  FoldLeft(LAMBDA acc, x :
         IF \E i \in 1..Len(acc) : acc[i] = x THEN acc ELSE Append(acc, x),
       <<>>, list)

\* The first `n` elements of a list.
Take(list, n) == SubSeq(list, 1, IF Len(list) < n THEN Len(list) ELSE n)

\* The examples the store holds for a path.
ExamplesAt(path) == Lookup(ss_store.Examples, path, <<>>)

\* C31: each path holds at most MaxExamples example values, pairwise
\* distinct, in the order of their first observation; once MaxExamples are
\* held no later value is added or replaces one: the examples of a path are
\* the first MaxExamples distinct values observed at it.
C31_ExamplesFirstDistinctUpToMax ==
  /\ \A path \in DOMAIN ss_store.Examples :
       /\ Len(ExamplesAt(path)) <= MaxExamples
       /\ \A i, j \in 1..Len(ExamplesAt(path)) :
            i # j => ExamplesAt(path)[i] # ExamplesAt(path)[j]
       /\ ExamplesAt(path) = Take(FirstOccurrences(ObservedAt(path)), MaxExamples)
  /\ \A path \in DOMAIN ss_store.seenCount \ DOMAIN ss_store.Examples :
       ObservedAt(path) = <<>>

\* A path holds MaxExamples examples after a repeated value and more than
\* MaxExamples distinct values were observed at it.
C31_Witness ==
  \E path \in DOMAIN ss_store.Examples :
    /\ Len(ExamplesAt(path)) = MaxExamples
    /\ Len(FirstOccurrences(ObservedAt(path))) > MaxExamples
    /\ Len(ObservedAt(path)) > Len(FirstOccurrences(ObservedAt(path)))

\* C39: in a store fed only through ProcessBody, the presence count of each
\* path (seenCount) is at most the total observation count.
C39_SeenCountAtMostTotalCount ==
  \A path \in DOMAIN ss_store.seenCount :
    ss_store.seenCount[path] <= ss_store.totalCount

\* Outside arrays the presence count of a path is the number of observations
\* it was present in, which is at most the total observation count.
SeenCountWithinTotalOutsideArrays ==
  \A path \in DOMAIN ss_store.seenCount :
    ~UnderArray(path) =>
      /\ ss_store.seenCount[path] = PresentIn(path)
      /\ ss_store.seenCount[path] <= ss_store.totalCount

(***************************************************************************)
(* Claims about the inference engine, checked under SpecEngine.            *)
(***************************************************************************)
\* The endpoint an AddRecord call is counted under.
EndpointOf(a) ==
  EndpointKey(a.method,
              IF a.pathTemplate = "" THEN InferTemplate(a.path).template
              ELSE a.pathTemplate)

\* The observations of an endpoint: the AddRecord calls made for it, in
\* order.
ObservationsOf(key) == SelectSeq(en_done, LAMBDA a : EndpointOf(a) = key)

\* The query parameter is in the observation.
HasQuery(a, name) == name \in Names(a.query)

\* The query parameter has been in every observation of the endpoint since
\* the one that introduced it.
InEveryObservationSince(key, name) ==
  LET obs == ObservationsOf(key)
  IN \A i \in 1..Len(obs) : \A j \in 1..Len(obs) :
        (HasQuery(obs[i], name) /\ i <= j) => HasQuery(obs[j], name)

\* No goroutine is inside AddRecord or Finalize.
EngineQuiet == \A p \in AProcs : en_pc[p] = "idle"

\* C16: for each endpoint, a query parameter is marked required iff it has
\* appeared in every observation of that endpoint since the observation
\* that introduced it.
C16_QueryRequiredIffAlwaysPresent ==
  EngineQuiet =>
    \A key \in DOMAIN en_c.endpoints :
       \A name \in DOMAIN en_c.endpoints[key].QueryParams :
          en_c.endpoints[key].QueryParams[name].Required
            <=> InEveryObservationSince(key, name)

\* A query parameter that some observation after its introduction lacks is
\* optional.
QueryOptionalOnceAbsent ==
  EngineQuiet =>
    \A key \in DOMAIN en_c.endpoints :
       \A name \in DOMAIN en_c.endpoints[key].QueryParams :
          ~InEveryObservationSince(key, name)
            => ~en_c.endpoints[key].QueryParams[name].Required

\* The finalized clusterer a sequence of accepted records produces.
Finalized(records) == ClustererFinalize(Fold(NewEndpointClusterer, records))

\* The orderings of a sequence.
Orderings(s) ==
  {[i \in 1..Len(s) |-> s[f[i]]] : f \in Permutations(1..Len(s))}

\* Names, types, formats and required flags of the parameters.
ParamSummary(params, types, formats) ==
  [name \in DOMAIN params |->
     [Type |-> IF types THEN params[name].Type ELSE "",
      Format |-> IF formats THEN params[name].Format ELSE "",
      Required |-> params[name].Required]]

\* Types, nullability, formats and optional flags of a body store.
StoreSummary(s, formats) ==
  [Types |-> s.Types, Nullable |-> s.Nullable,
   Formats |-> IF formats THEN s.Formats ELSE EmptyMap,
   Optional |-> s.Optional]

\* What the claim compares of a finalized result: everything but example
\* lists and content types.  `types` and `formats` tell whether the types
\* of parameters and the formats are compared.
Summary(c, types, formats) ==
  [key \in DOMAIN c.endpoints |->
     LET e == c.endpoints[key]
     IN [RequestCount |-> e.RequestCount,
         PathParams |-> ParamSummary(e.PathParams, types, formats),
         QueryParams |-> ParamSummary(e.QueryParams, types, formats),
         HeaderParams |-> ParamSummary(e.HeaderParams, types, formats),
         HasRequestBody |-> e.RequestBody.set,
         RequestBody |-> StoreSummary(e.RequestBody.Schema, formats),
         Responses |->
           [status \in DOMAIN e.Responses |->
              [Headers |-> ParamSummary(e.Responses[status].Headers,
                                        types, formats),
               Body |-> StoreSummary(e.Responses[status].Body, formats)]]]]

\* C17: for any two orderings of the same accepted records, the finalized
\* results have the same endpoint keys and request counts, the same
\* parameter names, types, formats and required flags, and the same
\* body-store types, nullability, formats and optional flags.
C17_CommutativeApartFromExamples ==
  EngineQuiet =>
    \A o \in Orderings(en_done) :
       Summary(Finalized(o), TRUE, TRUE)
         = Summary(ClustererFinalize(en_c), TRUE, TRUE)

\* The same without the types of parameters and without the formats.
CommutativeApartFromTypesAndFormats ==
  EngineQuiet =>
    \A o \in Orderings(en_done) :
       Summary(Finalized(o), FALSE, FALSE)
         = Summary(ClustererFinalize(en_c), FALSE, FALSE)

\* The formats recorded for the parameters of a map, as <<name, format>>.
FormatsOfParams(params) ==
  {<<name, params[name].Format>> :
     name \in {n \in DOMAIN params : params[n].Format # ""}}

\* The formats recorded for parameters: <<endpoint, kind, status, <<name,
\* format>>>>, the status being -1 for the parameters of the request.
ParamFormats(c) ==
  UNION {
    LET e == c.endpoints[key]
    IN {<<key, "path", -1, nf>> : nf \in FormatsOfParams(e.PathParams)}
       \cup {<<key, "query", -1, nf>> : nf \in FormatsOfParams(e.QueryParams)}
       \cup {<<key, "header", -1, nf>> : nf \in FormatsOfParams(e.HeaderParams)}
       \cup UNION {{<<key, "header", status, nf>> :
                      nf \in FormatsOfParams(e.Responses[status].Headers)} :
                   status \in DOMAIN e.Responses}
    : key \in DOMAIN c.endpoints}

\* The formats recorded in a store, as <<path, format>>.
FormatsOfStore(s) == {<<path, s.Formats[path]>> : path \in DOMAIN s.Formats}

\* The formats recorded for store paths: <<endpoint, status, <<path,
\* format>>>>, the status being -1 for the request body.
StoreFormats(c) ==
  UNION {
    LET e == c.endpoints[key]
    IN {<<key, -1, pf>> : pf \in FormatsOfStore(e.RequestBody.Schema)}
       \cup UNION {{<<key, status, pf>> :
                      pf \in FormatsOfStore(e.Responses[status].Body)} :
                   status \in DOMAIN e.Responses}
    : key \in DOMAIN c.endpoints}

\* C18: the first detected string format per store path and per parameter
\* is final: once a format has been recorded, no later observation changes
\* it.
C18_FirstFormatIsFinal ==
  [][/\ ParamFormats(en_c) \subseteq ParamFormats(en_c')
     /\ StoreFormats(en_c) \subseteq StoreFormats(en_c')]_vars

\* Where a format has been recorded, as the recorded formats without the
\* format.
FormatPlaces(formats) ==
  {SubSeq(f, 1, Len(f) - 1) \o <<f[Len(f)][1]>> : f \in formats}

\* A store path or parameter that has a format keeps having one.
RecordedFormatStaysRecorded ==
  [][/\ FormatPlaces(ParamFormats(en_c)) \subseteq FormatPlaces(ParamFormats(en_c'))
     /\ FormatPlaces(StoreFormats(en_c)) \subseteq FormatPlaces(StoreFormats(en_c'))]_vars

\* What can be observed through an InferenceResult when the clusterer is c:
\* the keys, hosts and schemes are the result's own, the values of its maps
\* are the clusterer's.
Observable(result, c) ==
  [Endpoints |-> [key \in result.Endpoints |-> c.endpoints[key]],
   Hosts |-> result.Hosts,
   Schemes |-> result.Schemes,
   SecuritySchemes |->
     [key \in result.SecuritySchemes |-> c.securityDetector[key]],
   PaginationParams |->
     [key \in result.PaginationParams |-> c.paginationDetector[key]],
   RateLimitHeaders |->
     [key \in result.RateLimitHeaders |-> c.rateLimitDetector[key]]]

\* C19: the InferenceResult returned by Finalize is read-only from then on:
\* no later ProcessRecord or Finalize call changes anything observable
\* through it.
C19_ResultReadOnly ==
  en_result.valid =>
    Observable(en_result.result, en_c)
      = Observable(en_result.result, en_result.returned)

\* Nothing observable through the result changes as long as no AddRecord
\* call returns and no Finalize call starts after it was returned.
ResultUnchangedWithoutLaterCalls ==
  (/\ en_result.valid
   /\ en_result.after = Len(en_done)
   /\ en_result.finals = en_finals) =>
    Observable(en_result.result, en_c)
      = Observable(en_result.result, en_result.returned)

\* C20: concurrent ProcessRecord calls on one engine are safe: every
\* interleaving of the calls leaves the engine in a state that processing
\* the same records one after the other in some order produces, with no
\* lost update to request counts, parameters, body stores, hosts, schemes
\* or detector counters.
C20_ConcurrentProcessRecordSafe ==
  \E o \in Orderings(en_done) :
     ClustererFinalize(en_c) = Finalized(o)

\* Two AddRecord calls for one endpoint were in progress at the same time
\* and have both returned.
C20_Witness ==
  /\ en_overlap
  /\ EngineQuiet
  /\ \E key \in DOMAIN en_c.endpoints : en_c.endpoints[key].RequestCount >= 2

\* The status of the record is outside [MinStatusCode, MaxStatusCode], or is
\* 400 or above while IncludeErrorResponses is false.
FilteredOut(options, record) ==
  \/ record.status < options.MinStatusCode
  \/ record.status > options.MaxStatusCode
  \/ (record.status >= 400 /\ ~options.IncludeErrorResponses)

\* C21: ProcessRecord on a record whose status is filtered out records
\* nothing: no such record reaches the clusterer, and the state of the
\* engine is the one the other records produce.
C21_FilteredRecordChangesNothing ==
  /\ \A i \in 1..Len(en_done) : ~FilteredOut(en_options, en_done[i])
  /\ \A p \in AProcs :
        en_pc[p] \in {"AddRecord", "locked"} => ~FilteredOut(en_options, en_arg[p])
  /\ ClustererFinalize(en_c) = Finalized(en_done)

\* A ProcessRecord call with a filtered-out record has returned, after a
\* record was recorded.
C21_Witness ==
  /\ EngineQuiet
  /\ Len(en_done) >= 1
  /\ en_calls > Len(en_done)

\* The content type recorded at the first sighting of a body.
FirstContentType(observed) ==
  IF observed = <<>> \/ Head(observed) = "" THEN "application/json"
  ELSE Head(observed)

\* The response content types of the observations of an endpoint with the
\* status, in order.
ResponseContentTypes(key, status) ==
  LET obs == SelectSeq(ObservationsOf(key), LAMBDA a : a.status = status)
  IN [i \in 1..Len(obs) |-> obs[i].responseContentType]

\* The request content types of the observations of an endpoint that have a
\* request body, in order.
RequestContentTypes(key) ==
  LET obs == SelectSeq(ObservationsOf(key), LAMBDA a : a.requestBody.k # "nil")
  IN [i \in 1..Len(obs) |-> obs[i].requestContentType]

\* C30: for each response status of an endpoint, and for the endpoint's
\* request body, the content type is fixed at first sighting: it is the one
\* of the first record for the endpoint and status (or with a request
\* body), and no later record, whether it carries a different content type
\* or none, changes it.
C30_ContentTypeFirstObservedWins ==
  \A key \in DOMAIN en_c.endpoints :
     /\ \A status \in DOMAIN en_c.endpoints[key].Responses :
           en_c.endpoints[key].Responses[status].ContentType =
             FirstContentType(ResponseContentTypes(key, status))
     /\ en_c.endpoints[key].RequestBody.set =>
           en_c.endpoints[key].RequestBody.ContentType =
             FirstContentType(RequestContentTypes(key))

\* Two records for one endpoint and status were recorded, the second with a
\* content type of its own that differs from the first's.
C30_Witness ==
  /\ EngineQuiet
  /\ \E key \in DOMAIN en_c.endpoints :
        \E status \in DOMAIN en_c.endpoints[key].Responses :
           /\ Len(ResponseContentTypes(key, status)) >= 2
           /\ ResponseContentTypes(key, status)[2] # ""
           /\ ResponseContentTypes(key, status)[2] # ResponseContentTypes(key, status)[1]

(***************************************************************************)
(* Claims about PathInferrer, checked under SpecPath.                      *)
(***************************************************************************)
\* The positions of the placeholders of a template.
PlaceholdersOf(template) == {i \in 1..Len(template) : template[i].param}

\* The placeholder names of the template are pairwise distinct.
DistinctNames(template) ==
  \A i \in PlaceholdersOf(template) : \A j \in PlaceholdersOf(template) :
     template[i].name = template[j].name => i = j

\* The number of placeholders up to position i whose name has the base name
\* of the placeholder at i.
Occurrence(template, i) ==
  Cardinality({j \in PlaceholdersOf(template) :
                 j <= i /\ template[j].name.base = template[i].name.base})

\* C22: on a name collision within one path the inferrer appends increasing
\* numeric suffixes (userId, userId2, userId3, ...), so the placeholder
\* names of the inferred template are pairwise distinct and the parameter
\* map has exactly one entry per placeholder, holding that segment's value.
C22_CollidingNamesGetIncreasingSuffixes ==
  pi_pc # "path" =>
    LET template == pi_first.template
    IN /\ \A i \in PlaceholdersOf(template) :
             template[i].name.n =
               IF Occurrence(template, i) = 1 THEN 0
               ELSE Occurrence(template, i)
       /\ DistinctNames(template)
       /\ DOMAIN pi_first.params = {template[i].name : i \in PlaceholdersOf(template)}
       /\ \A i \in PlaceholdersOf(template) :
             pi_first.params[template[i].name] = pi_path[i]

\* The same for the paths in which no base name is inferred more than
\* twice.
SuffixesUpToTwoPerName ==
  (/\ pi_pc # "path"
   /\ \A i \in PlaceholdersOf(pi_first.template) :
         Occurrence(pi_first.template, i) <= 2) =>
    LET template == pi_first.template
    IN /\ DistinctNames(template)
       /\ DOMAIN pi_first.params = {template[i].name : i \in PlaceholdersOf(template)}
       /\ \A i \in PlaceholdersOf(template) :
             pi_first.params[template[i].name] = pi_path[i]

\* C23: template idempotence: if InferTemplate(p) returns (t, params),
\* InferTemplate on the path made by substituting params back into t
\* returns the same template and the same parameter map.
C23_TemplateIdempotent ==
  pi_pc = "again" => pi_second = pi_first

\* The same for the paths whose placeholder names come out distinct.
IdempotentWhenNamesDistinct ==
  (pi_pc = "again" /\ DistinctNames(pi_first.template)) => pi_second = pi_first

(***************************************************************************)
(* Claims about inference followed by generation, checked under            *)
(* SpecGenerator.                                                          *)
(***************************************************************************)
\* C25: OpenAPI determinism: for identical input (the same record sequence
\* and the same generator options) repeated inference-and-generation runs
\* produce identical documents, including the order of the servers list, of
\* each operation's parameters and security requirements and of every
\* required list.
C25_RepeatedRunsSameDocument ==
  \A i \in DOMAIN gn_docs : \A j \in DOMAIN gn_docs : gn_docs[i] = gn_docs[j]

\* The runs agree on everything but the order of the servers list.
SameDocumentApartFromServerOrder ==
  \A i \in DOMAIN gn_docs : \A j \in DOMAIN gn_docs :
     /\ [gn_docs[i] EXCEPT !.Servers = <<>>] = [gn_docs[j] EXCEPT !.Servers = <<>>]
     /\ Range(gn_docs[i].Servers) = Range(gn_docs[j].Servers)
     /\ Len(gn_docs[i].Servers) = Len(gn_docs[j].Servers)

\* The runs agree when at most one host and one scheme were observed or the
\* servers come from the options.
SameDocumentWithOneServer ==
  (gn_inferred /\ (Cardinality(gn_c.hosts) * Cardinality(gn_c.schemes) <= 1
                    \/ Len(gn_options.Servers) > 0)) =>
    \A i \in DOMAIN gn_docs : \A j \in DOMAIN gn_docs : gn_docs[i] = gn_docs[j]

\* The path segments of the records that are purely numeric.
NumericSegments == {"123"}

\* The path parameters all of whose observed values are numeric segments.
NumericPathParams(endpoint) ==
  {name \in DOMAIN endpoint.PathParams :
     /\ endpoint.PathParams[name].Examples # <<>>
     /\ \A e \in Range(endpoint.PathParams[name].Examples) :
           e.k = "string" /\ e.v \in NumericSegments}

\* The emitted parameters of the operation of an endpoint that are the path
\* parameter of the name.
EmittedPathParams(doc, key, name) ==
  {doc.Paths[key].Parameters[i] : i \in
     {i \in DOMAIN doc.Paths[key].Parameters :
        /\ doc.Paths[key].Parameters[i].In = "path"
        /\ doc.Paths[key].Parameters[i].Name = name}}

\* C26: a path parameter all of whose observed values are purely numeric
\* segments (/users/123) is typed integer in the endpoint's parameter data
\* and in the emitted OpenAPI parameter schema.
C26_NumericPathParamTypedInteger ==
  \A key \in DOMAIN gn_c.endpoints :
     \A name \in NumericPathParams(gn_c.endpoints[key]) :
        /\ gn_c.endpoints[key].PathParams[name].Type = "integer"
        /\ \A d \in DOMAIN gn_docs :
              key \in DOMAIN gn_docs[d].Paths =>
                \A p \in EmittedPathParams(gn_docs[d], key, name) :
                   p.Type = "integer"

\* Every path parameter is typed string, and emitted once per document with
\* the type string and required.
PathParamsTypedString ==
  \A key \in DOMAIN gn_c.endpoints :
     \A name \in DOMAIN gn_c.endpoints[key].PathParams :
        /\ gn_c.endpoints[key].PathParams[name].Type = "string"
        /\ \A d \in DOMAIN gn_docs :
              key \in DOMAIN gn_docs[d].Paths =>
                /\ Cardinality(EmittedPathParams(gn_docs[d], key, name)) = 1
                /\ \A p \in EmittedPathParams(gn_docs[d], key, name) :
                      p.Type = "string" /\ p.Required

\* The schemas a document emits, each with the schema tree it was converted
\* from: the response bodies and the request bodies of the operations.
EmittedSchemas(doc) ==
  {[schema |-> doc.Paths[key].Responses[status].Content.Schema,
    tree |-> BuildSchemaTree(gn_c.endpoints[key].Responses[status].Body)] :
     <<key, status>> \in
       {ks \in (DOMAIN doc.Paths) \X (0..599) :
          /\ ks[2] \in DOMAIN doc.Paths[ks[1]].Responses
          /\ doc.Paths[ks[1]].Responses[ks[2]].Content.set}}
  \cup
  {[schema |-> doc.Paths[key].RequestBody.Schema,
    tree |-> BuildSchemaTree(gn_c.endpoints[key].RequestBody.Schema)] :
     key \in {k \in DOMAIN doc.Paths : doc.Paths[k].RequestBody.set}}

\* C32: a nullable schema node is emitted with the two-element type
\* [type, "null"] iff the target version is 3.1.0; under 3.0.3 and 3.2.0 its
\* plain type is emitted and the nullability is dropped; the example lists
\* are emitted only under 3.1.0.
C32_NullableAndExamplesOnlyUnder31 ==
  \A d \in DOMAIN gn_docs :
    \A e \in EmittedSchemas(gn_docs[d]) :
      /\ DOMAIN e.schema = DOMAIN e.tree
      /\ \A node \in DOMAIN e.tree :
           /\ (e.schema[node].Type = <<e.tree[node].Type, "null">>)
                <=> (e.tree[node].Nullable /\ gn_docs[d].OpenAPI = "3.1.0")
           /\ ~(e.tree[node].Nullable /\ gn_docs[d].OpenAPI = "3.1.0")
                => e.schema[node].Type = <<e.tree[node].Type>>
           /\ e.schema[node].Examples =
                IF gn_docs[d].OpenAPI = "3.1.0" THEN e.tree[node].Examples
                ELSE <<>>

\* A document of version 3.2.0 emits a schema for a nullable node that has
\* examples.
C32_Witness ==
  \E d \in DOMAIN gn_docs :
    /\ gn_docs[d].OpenAPI = "3.2.0"
    /\ \E e \in EmittedSchemas(gn_docs[d]) :
         \E node \in DOMAIN e.tree :
            /\ e.tree[node].Nullable
            /\ e.tree[node].Examples # <<>>
            /\ e.schema[node].Type = <<e.tree[node].Type>>

(***************************************************************************)
(* Claims about MergeSchemas, checked under SpecMerge.                     *)
(***************************************************************************)
RECURSIVE WithoutExamples(_)
\* A *SchemaNode with the examples of every node left out.
WithoutExamples(p) ==
  IF p = <<>> THEN <<>>
  ELSE <<[Type |-> p[1].Type, Format |-> p[1].Format,
          Nullable |-> p[1].Nullable, Required |-> p[1].Required,
          Items |-> WithoutExamples(p[1].Items),
          Properties |->
            [name \in DOMAIN p[1].Properties |->
               WithoutExamples(<<p[1].Properties[name]>>)[1]]]>>

RECURSIVE TypesOf(_, _)
\* The type and the nullability of every node of a *SchemaNode, and its
\* format when withFormat.
TypesOf(p, withFormat) ==
  IF p = <<>> THEN <<>>
  ELSE <<[Type |-> p[1].Type,
          Format |-> IF withFormat THEN p[1].Format ELSE "",
          Nullable |-> p[1].Nullable,
          Items |-> TypesOf(p[1].Items, withFormat),
          Properties |->
            [name \in DOMAIN p[1].Properties |->
               TypesOf(<<p[1].Properties[name]>>, withFormat)[1]]]>>

\* merge(x, x) equals x in type, format, nullability, properties, items and
\* required list.
MergeIdempotent ==
  mg_pc = "done" => WithoutExamples(mg_aa) = WithoutExamples(<<mg_a>>)

\* merge(x, y) and merge(y, x) agree on type and nullability at every node.
MergeCommutativeOnTypeAndNullability ==
  mg_pc # "nodes" => TypesOf(mg_ab, FALSE) = TypesOf(mg_ba, FALSE)

\* C24: MergeSchemas is idempotent (merge(x, x) equals x in type, format,
\* nullability, properties, items and required list, up to example
\* de-duplication) and commutative in the resulting type, nullability and
\* format (merge(x, y) and merge(y, x) agree on them at every node).
C24_MergeIdempotentAndCommutative ==
  /\ mg_pc = "done" => WithoutExamples(mg_aa) = WithoutExamples(<<mg_a>>)
  /\ mg_pc # "nodes" => TypesOf(mg_ab, TRUE) = TypesOf(mg_ba, TRUE)

RECURSIVE FormatsAgree(_, _)
\* No node of the one has a format where the same node of the other has a
\* different one.
FormatsAgree(p, q) ==
  \/ p = <<>>
  \/ q = <<>>
  \/ /\ p[1].Format = "" \/ q[1].Format = "" \/ p[1].Format = q[1].Format
     /\ FormatsAgree(p[1].Items, q[1].Items)
     /\ \A name \in DOMAIN p[1].Properties \cap DOMAIN q[1].Properties :
           FormatsAgree(<<p[1].Properties[name]>>, <<q[1].Properties[name]>>)

\* merge(x, y) and merge(y, x) agree on the format as well when no node of
\* x and y has two different formats.
MergeCommutativeWhenFormatsAgree ==
  (mg_pc # "nodes" /\ FormatsAgree(<<mg_a>>, <<mg_b>>)) =>
    TypesOf(mg_ab, TRUE) = TypesOf(mg_ba, TRUE)

(***************************************************************************)
(* Claims about the providers' constructors, checked under SpecContext.    *)
(***************************************************************************)
\* The call returned the context's error and made nothing: no file or
\* object created, no file or stream left open, no writer or reader
\* returned, the path as it was.
CancelledCleanly(call) ==
  /\ call.out.err.kind = "ctx"
  /\ ~call.out.returned
  /\ ~call.out.created
  /\ ~call.out.opened
  /\ call.out.file = call.before

\* C27: for every provider (NDJSON, gzip-NDJSON, object-store, channel),
\* NewWriter and NewReader called with an already-cancelled context return
\* the context's cancellation error and create no resource: no file is
\* created or opened, no stream is opened, and no writer or reader is
\* returned.
C27_CancelledContextCreatesNothing ==
  cx_ctxErr => \A i \in DOMAIN cx_calls : CancelledCleanly(cx_calls[i])

\* The same for the providers that check the context themselves, and for
\* the object-store provider over a backend that checks it.
CancelledContextCreatesNothingWhereChecked ==
  (cx_ctxErr /\ (cx_kind \in {"ndjson", "gzip", "channel"} \/ cx_backendChecks)) =>
    \A i \in DOMAIN cx_calls :
       /\ CancelledCleanly(cx_calls[i])
       /\ cx_calls[i].out.err.wrapped = (cx_kind \in {"storage", "storage.gz"})

(***************************************************************************)
(* Claims about NDJSONReader, checked under SpecReader.                    *)
(***************************************************************************)
RECURSIVE ResultsOfLines(_, _)
\* What the non-blank lines from line i on hold, in order: the record of a
\* line that decodes, the decode error with the line's 1-based number of
\* one that does not.
ResultsOfLines(lines, i) ==
  IF i > Len(lines) THEN <<>>
  ELSE IF TrimSpace(lines[i]) = <<>> THEN ResultsOfLines(lines, i + 1)
  ELSE <<IF Unmarshal(TrimSpace(lines[i])).ok
         THEN ReadResult("rec", Unmarshal(TrimSpace(lines[i])).rec, 0)
         ELSE ReadResult("decode", NoRecord, i)>>
         \o ResultsOfLines(lines, i + 1)

\* The Read calls returned what the non-blank lines hold, in order, and
\* io.EOF after the last of them.
ReadsFollowLines ==
  \A k \in DOMAIN rd_out :
     rd_out[k] = IF k <= Len(ResultsOfLines(rd_lines, 1))
                 THEN ResultsOfLines(rd_lines, 1)[k]
                 ELSE ReadResult("eof", NoRecord, 0)

\* C28: NDJSONReader.Read yields exactly the records on the non-blank lines
\* in stream order, skipping empty lines; when a line fails to decode, the
\* returned error reports that line's 1-based line number; and once the
\* input is exhausted every further Read returns end-of-stream.
C28_ReadYieldsNonBlankLinesInOrder ==
  \A k \in DOMAIN rd_out :
     /\ k <= Len(ResultsOfLines(rd_lines, 1))
          => rd_out[k] = ResultsOfLines(rd_lines, 1)[k]
     /\ k > Len(ResultsOfLines(rd_lines, 1)) => rd_out[k].kind = "eof"

\* The same for the streams without a line of ScannerMaxTokenSize bytes or
\* more.
ReadsFollowLinesBelowLimit ==
  (\A i \in DOMAIN rd_lines : ByteLen(rd_lines[i]) < ScannerMaxTokenSize)
    => ReadsFollowLines

(***************************************************************************)
(* Claims about BuildSchemaTree beside concurrent mutation, checked under  *)
(* SpecBuildFair.                                                          *)
(***************************************************************************)
\* C36: BuildSchemaTree always runs to completion while other goroutines
\* call AddValue, AddObservation and FinalizeOptional: the nested read-lock
\* acquisitions of the recursion never deadlock against a waiting writer.
C36_BuildSchemaTreeCompletes == <>(bt_pc = "done")

\* BuildSchemaTree waits inside a nested convertToSchemaNode call for a read
\* lock while the mutating goroutine waits for the read lock the outer call
\* holds.
NestedRLockBehindWriter ==
  /\ bt_pc = "convert"
  /\ ~Top.locked
  /\ bt_readers > 0
  /\ bt_writer = "waiting"

\* BuildSchemaTree can always take a step unless a mutating goroutine is
\* waiting in or holding mu.Lock(), and it stops for good only in a nested
\* call behind a waiting writer.
BuildStopsOnlyBehindWriter ==
  /\ (bt_pc # "done" /\ bt_writer = "idle") => ENABLED BuildSteps
  /\ (bt_pc # "done" /\ ~ENABLED BuildSteps /\ ~ENABLED MutatorSteps)
       => NestedRLockBehindWriter

\* BuildSchemaTree completes unless a mutating call arrives while it runs.
BuildCompletesUnlessMutated == <>(bt_pc = "done" \/ bt_writer # "idle")

(***************************************************************************)
(* Claims about ReadFile, checked under SpecReadFile.                      *)
(***************************************************************************)
\* The format a file name stands for, "" for a name without extension.
FormatOfName(path) ==
  LET n == Len(path)
  IN IF n >= 10 /\ SubSeq(path, n - 9, n)
                     = <<".", "n", "d", "j", "s", "o", "n", ".", "g", "z">>
     THEN "gzip"
     ELSE IF n >= 7 /\ SubSeq(path, n - 6, n) = <<".", "n", "d", "j", "s", "o", "n">>
     THEN "ndjson"
     ELSE IF n >= 5 /\ SubSeq(path, n - 4, n) = <<".", "j", "s", "o", "n">>
     THEN "batch"
     ELSE ""

\* A string as json.Marshal stores it: a byte that is not valid UTF-8 is
\* stored as U+FFFD.
StoredString(s) ==
  [i \in 1..Len(s) |-> IF s[i] = "BAD" THEN "RUNE_FFFD" ELSE s[i]]

\* The record a file stores for a record written to it.
Stored(r) ==
  [id |-> [nil |-> r.id.nil, s |-> StoredString(r.id.s)],
   method |-> StoredString(r.method), path |-> StoredString(r.path),
   status |-> r.status]

\* The call chose the codec of the file's name without looking at the
\* content and returned the records stored in the file.
ReadByName(out) ==
  /\ ~out.peeked
  /\ out.codec = FormatOfName(rf_name)
  /\ out.err = ""
  /\ Len(out.records) = Len(rf_records)
  /\ \A i \in 1..Len(rf_records) : KeyOf(out.records[i]) = Stored(rf_records[i])

\* C33: for any file whose name ends in .json, .ndjson or .ndjson.gz,
\* ReadFile chooses the codec from the name alone, without peeking at the
\* content (batch, NDJSON and gzip-wrapped NDJSON respectively), and returns
\* the records stored in the file.
C33_ReadFileByExtension ==
  FormatOfName(rf_name) # "" =>
    \A i \in 1..Len(rf_out) : ReadByName(rf_out[i])

\* In an NDJSON file every line is shorter than the scanner's limit.
Readable ==
  \A i \in 1..Len(rf_records) :
     rf_format = "ndjson" =>
       ByteLen(Marshal(rf_records[i])) < ScannerMaxTokenSize

\* For a file whose name ends in .json or .ndjson, ReadFile chooses the
\* codec from the name alone and returns the stored records when every line
\* is shorter than the scanner's limit; a file whose name ends in .ndjson.gz is read by its content,
\* which is not recognized.
ReadFileByJSONExtension ==
  \A i \in 1..Len(rf_out) :
     /\ (FormatOfName(rf_name) \in {"batch", "ndjson"} /\ Readable)
          => ReadByName(rf_out[i])
     /\ FormatOfName(rf_name) \in {"batch", "ndjson"}
          => (~rf_out[i].peeked /\ rf_out[i].codec = FormatOfName(rf_name))
     /\ FormatOfName(rf_name) = "gzip"
          => (rf_out[i].peeked /\ rf_out[i].err = "unrecognized format")

====
